---- MODULE Spec2Model ----
(***************************************************************************)
(* Model of main.py: the calibration session (/debug and the "dbg:..."     *)
(* callbacks), the coordinate registry COORDS, the persisted config.json,  *)
(* the overlay artifact, and the end-user form that renders the card.      *)
(*                                                                         *)
(* Strings that the code only compares are TLA+ strings.  Strings that the *)
(* code parses or produces character by character (a message's text, the   *)
(* delta of an adjust button, the integers of the JSON document) are       *)
(* sequences of one-character strings.  cq.data is kept as the list        *)
(* cq.data.split(":").                                                     *)
(*                                                                         *)
(* A handler runs from the update to its first await on the network as one *)
(* step; when code with an effect follows that await, the handler is kept  *)
(* in pending and finished by a later step.  The transport is taken to     *)
(* carry out every call it is given: a message, an edit or an upload that  *)
(* Telegram refuses is not modelled.                                       *)
(***************************************************************************)
EXTENDS Integers, Sequences, FiniteSets, Bags, TLC

VARIABLES
    fsm_state,          \* FSMContext state of each user
    fsm_data,           \* FSMContext data (a dict) of each user
    COORDS,             \* the registry: name -> {x, y, w, h}
    BOXES,              \* TIME_BOX .. WALLET_BOX as last refreshed from COORDS
    config_json,        \* the file CONFIG_JSON_PATH
    template_exists,    \* whether TEMPLATE_PATH exists
    debug_overlay_png,  \* the file BASE_DIR / "debug_overlay.png"
    n_adjusted,         \* number of adjusts that wrote the registry
    last,               \* the last update handled and what the operator got back
    pending,            \* per user: the bag of handlers suspended at an await with code still to run
    output_png,         \* the file BASE_DIR / "output.png"
    sent,               \* the last file uploaded by answer_document: to whom, which, its content
    shown,              \* per user: the keyboard messages in the chat, oldest first, each as it reads now
    adj_log,            \* the adjusts that wrote the registry, in the order they ran
    wrap,               \* a wallet text and what wrap_mono made of it
    n_updates           \* number of updates delivered to the dispatcher

\* what no handler writes: the log kept of the adjusts, the wallet text under
\* test and the count of updates
aux == <<adj_log, wrap, n_updates>>

\* the registry, the files of the calibration and the count of adjusts
regvars == <<COORDS, BOXES, config_json, template_exists, debug_overlay_png, n_adjusted>>

vars == <<fsm_state, fsm_data, COORDS, BOXES, config_json, template_exists,
          debug_overlay_png, n_adjusted, last, pending, output_png, sent, shown,
          adj_log, wrap, n_updates>>

(***************************************************************************)
(* Bounds                                                                  *)
(***************************************************************************)
\* at most this many adjusts write the registry in one behaviour
MaxAdjusts == 2

\* a handler that will be suspended is started only while fewer than this
\* many handlers are suspended at an await
MaxInFlight == 2

\* at most this many /debug messages are sent in one behaviour, by all users together
MaxMessages == 2

\* the dispatcher is given at most this many updates in one behaviour; the
\* handlers they suspend are all resumed
MaxUpdates == 5

\* the longest wallet text tried, in non-whitespace characters
MaxWalletLen == 72

\* the users whose updates are delivered
Users == {"op"}

(***************************************************************************)
(* The registry's built-in defaults                                        *)
(***************************************************************************)
Coords(x, y, w, h) == [x |-> x, y |-> y, w |-> w, h |-> h]

TIME_BOX == Coords(45, 42, 120, 40)
BATT_BOX == Coords(842, 42, 70, 40)
OPID_BOX == Coords(310, 1005, 330, 44)
AMOUNT_LINE == Coords(170, 1360, 606, 50)
WALLET_BOX == Coords(170, 1445, 606, 120)

COORD_NAMES_ORDER ==
    <<"TIME_BOX", "BATT_BOX", "OPID_BOX", "AMOUNT_LINE", "WALLET_BOX">>

Names == {COORD_NAMES_ORDER[i] : i \in DOMAIN COORD_NAMES_ORDER}

Axes == {"x", "y", "w", "h"}

\* COORD_LABELS has one label for every name of COORD_NAMES_ORDER
COORD_LABELS == [k \in Names |-> "label"]

DefaultCoords ==
    [k \in Names |->
        CASE k = "TIME_BOX" -> TIME_BOX
          [] k = "BATT_BOX" -> BATT_BOX
          [] k = "OPID_BOX" -> OPID_BOX
          [] k = "AMOUNT_LINE" -> AMOUNT_LINE
          [] k = "WALLET_BOX" -> WALLET_BOX]

(***************************************************************************)
(* Python helpers                                                          *)
(***************************************************************************)
Max(a, b) == IF a >= b THEN a ELSE b

\* A character is a one-character string; a character TLA+ cannot write that
\* way is written as the name of its code point, "U+0663".

\* the characters [0-9]
AsciiDigits == <<"0", "1", "2", "3", "4", "5", "6", "7", "8", "9">>

IsAsciiDigit(c) == \E i \in DOMAIN AsciiDigits : AsciiDigits[i] = c

\* the decimal digits int() and \d take: every character of Unicode category
\* Nd, one row of ten per script, the digit of value i - 1 at place i
Digits ==
    <<AsciiDigits,
      <<"U+0660", "U+0661", "U+0662", "U+0663", "U+0664",
        "U+0665", "U+0666", "U+0667", "U+0668", "U+0669">>,
      <<"U+06F0", "U+06F1", "U+06F2", "U+06F3", "U+06F4",
        "U+06F5", "U+06F6", "U+06F7", "U+06F8", "U+06F9">>,
      <<"U+07C0", "U+07C1", "U+07C2", "U+07C3", "U+07C4",
        "U+07C5", "U+07C6", "U+07C7", "U+07C8", "U+07C9">>,
      <<"U+0966", "U+0967", "U+0968", "U+0969", "U+096A",
        "U+096B", "U+096C", "U+096D", "U+096E", "U+096F">>,
      <<"U+09E6", "U+09E7", "U+09E8", "U+09E9", "U+09EA",
        "U+09EB", "U+09EC", "U+09ED", "U+09EE", "U+09EF">>,
      <<"U+0A66", "U+0A67", "U+0A68", "U+0A69", "U+0A6A",
        "U+0A6B", "U+0A6C", "U+0A6D", "U+0A6E", "U+0A6F">>,
      <<"U+0AE6", "U+0AE7", "U+0AE8", "U+0AE9", "U+0AEA",
        "U+0AEB", "U+0AEC", "U+0AED", "U+0AEE", "U+0AEF">>,
      <<"U+0B66", "U+0B67", "U+0B68", "U+0B69", "U+0B6A",
        "U+0B6B", "U+0B6C", "U+0B6D", "U+0B6E", "U+0B6F">>,
      <<"U+0BE6", "U+0BE7", "U+0BE8", "U+0BE9", "U+0BEA",
        "U+0BEB", "U+0BEC", "U+0BED", "U+0BEE", "U+0BEF">>,
      <<"U+0C66", "U+0C67", "U+0C68", "U+0C69", "U+0C6A",
        "U+0C6B", "U+0C6C", "U+0C6D", "U+0C6E", "U+0C6F">>,
      <<"U+0CE6", "U+0CE7", "U+0CE8", "U+0CE9", "U+0CEA",
        "U+0CEB", "U+0CEC", "U+0CED", "U+0CEE", "U+0CEF">>,
      <<"U+0D66", "U+0D67", "U+0D68", "U+0D69", "U+0D6A",
        "U+0D6B", "U+0D6C", "U+0D6D", "U+0D6E", "U+0D6F">>,
      <<"U+0DE6", "U+0DE7", "U+0DE8", "U+0DE9", "U+0DEA",
        "U+0DEB", "U+0DEC", "U+0DED", "U+0DEE", "U+0DEF">>,
      <<"U+0E50", "U+0E51", "U+0E52", "U+0E53", "U+0E54",
        "U+0E55", "U+0E56", "U+0E57", "U+0E58", "U+0E59">>,
      <<"U+0ED0", "U+0ED1", "U+0ED2", "U+0ED3", "U+0ED4",
        "U+0ED5", "U+0ED6", "U+0ED7", "U+0ED8", "U+0ED9">>,
      <<"U+0F20", "U+0F21", "U+0F22", "U+0F23", "U+0F24",
        "U+0F25", "U+0F26", "U+0F27", "U+0F28", "U+0F29">>,
      <<"U+1040", "U+1041", "U+1042", "U+1043", "U+1044",
        "U+1045", "U+1046", "U+1047", "U+1048", "U+1049">>,
      <<"U+1090", "U+1091", "U+1092", "U+1093", "U+1094",
        "U+1095", "U+1096", "U+1097", "U+1098", "U+1099">>,
      <<"U+17E0", "U+17E1", "U+17E2", "U+17E3", "U+17E4",
        "U+17E5", "U+17E6", "U+17E7", "U+17E8", "U+17E9">>,
      <<"U+1810", "U+1811", "U+1812", "U+1813", "U+1814",
        "U+1815", "U+1816", "U+1817", "U+1818", "U+1819">>,
      <<"U+1946", "U+1947", "U+1948", "U+1949", "U+194A",
        "U+194B", "U+194C", "U+194D", "U+194E", "U+194F">>,
      <<"U+19D0", "U+19D1", "U+19D2", "U+19D3", "U+19D4",
        "U+19D5", "U+19D6", "U+19D7", "U+19D8", "U+19D9">>,
      <<"U+1A80", "U+1A81", "U+1A82", "U+1A83", "U+1A84",
        "U+1A85", "U+1A86", "U+1A87", "U+1A88", "U+1A89">>,
      <<"U+1A90", "U+1A91", "U+1A92", "U+1A93", "U+1A94",
        "U+1A95", "U+1A96", "U+1A97", "U+1A98", "U+1A99">>,
      <<"U+1B50", "U+1B51", "U+1B52", "U+1B53", "U+1B54",
        "U+1B55", "U+1B56", "U+1B57", "U+1B58", "U+1B59">>,
      <<"U+1BB0", "U+1BB1", "U+1BB2", "U+1BB3", "U+1BB4",
        "U+1BB5", "U+1BB6", "U+1BB7", "U+1BB8", "U+1BB9">>,
      <<"U+1C40", "U+1C41", "U+1C42", "U+1C43", "U+1C44",
        "U+1C45", "U+1C46", "U+1C47", "U+1C48", "U+1C49">>,
      <<"U+1C50", "U+1C51", "U+1C52", "U+1C53", "U+1C54",
        "U+1C55", "U+1C56", "U+1C57", "U+1C58", "U+1C59">>,
      <<"U+A620", "U+A621", "U+A622", "U+A623", "U+A624",
        "U+A625", "U+A626", "U+A627", "U+A628", "U+A629">>,
      <<"U+A8D0", "U+A8D1", "U+A8D2", "U+A8D3", "U+A8D4",
        "U+A8D5", "U+A8D6", "U+A8D7", "U+A8D8", "U+A8D9">>,
      <<"U+A900", "U+A901", "U+A902", "U+A903", "U+A904",
        "U+A905", "U+A906", "U+A907", "U+A908", "U+A909">>,
      <<"U+A9D0", "U+A9D1", "U+A9D2", "U+A9D3", "U+A9D4",
        "U+A9D5", "U+A9D6", "U+A9D7", "U+A9D8", "U+A9D9">>,
      <<"U+A9F0", "U+A9F1", "U+A9F2", "U+A9F3", "U+A9F4",
        "U+A9F5", "U+A9F6", "U+A9F7", "U+A9F8", "U+A9F9">>,
      <<"U+AA50", "U+AA51", "U+AA52", "U+AA53", "U+AA54",
        "U+AA55", "U+AA56", "U+AA57", "U+AA58", "U+AA59">>,
      <<"U+ABF0", "U+ABF1", "U+ABF2", "U+ABF3", "U+ABF4",
        "U+ABF5", "U+ABF6", "U+ABF7", "U+ABF8", "U+ABF9">>,
      <<"U+FF10", "U+FF11", "U+FF12", "U+FF13", "U+FF14",
        "U+FF15", "U+FF16", "U+FF17", "U+FF18", "U+FF19">>,
      <<"U+104A0", "U+104A1", "U+104A2", "U+104A3", "U+104A4",
        "U+104A5", "U+104A6", "U+104A7", "U+104A8", "U+104A9">>,
      <<"U+10D30", "U+10D31", "U+10D32", "U+10D33", "U+10D34",
        "U+10D35", "U+10D36", "U+10D37", "U+10D38", "U+10D39">>,
      <<"U+11066", "U+11067", "U+11068", "U+11069", "U+1106A",
        "U+1106B", "U+1106C", "U+1106D", "U+1106E", "U+1106F">>,
      <<"U+110F0", "U+110F1", "U+110F2", "U+110F3", "U+110F4",
        "U+110F5", "U+110F6", "U+110F7", "U+110F8", "U+110F9">>,
      <<"U+11136", "U+11137", "U+11138", "U+11139", "U+1113A",
        "U+1113B", "U+1113C", "U+1113D", "U+1113E", "U+1113F">>,
      <<"U+111D0", "U+111D1", "U+111D2", "U+111D3", "U+111D4",
        "U+111D5", "U+111D6", "U+111D7", "U+111D8", "U+111D9">>,
      <<"U+112F0", "U+112F1", "U+112F2", "U+112F3", "U+112F4",
        "U+112F5", "U+112F6", "U+112F7", "U+112F8", "U+112F9">>,
      <<"U+11450", "U+11451", "U+11452", "U+11453", "U+11454",
        "U+11455", "U+11456", "U+11457", "U+11458", "U+11459">>,
      <<"U+114D0", "U+114D1", "U+114D2", "U+114D3", "U+114D4",
        "U+114D5", "U+114D6", "U+114D7", "U+114D8", "U+114D9">>,
      <<"U+11650", "U+11651", "U+11652", "U+11653", "U+11654",
        "U+11655", "U+11656", "U+11657", "U+11658", "U+11659">>,
      <<"U+116C0", "U+116C1", "U+116C2", "U+116C3", "U+116C4",
        "U+116C5", "U+116C6", "U+116C7", "U+116C8", "U+116C9">>,
      <<"U+11730", "U+11731", "U+11732", "U+11733", "U+11734",
        "U+11735", "U+11736", "U+11737", "U+11738", "U+11739">>,
      <<"U+118E0", "U+118E1", "U+118E2", "U+118E3", "U+118E4",
        "U+118E5", "U+118E6", "U+118E7", "U+118E8", "U+118E9">>,
      <<"U+11950", "U+11951", "U+11952", "U+11953", "U+11954",
        "U+11955", "U+11956", "U+11957", "U+11958", "U+11959">>,
      <<"U+11C50", "U+11C51", "U+11C52", "U+11C53", "U+11C54",
        "U+11C55", "U+11C56", "U+11C57", "U+11C58", "U+11C59">>,
      <<"U+11D50", "U+11D51", "U+11D52", "U+11D53", "U+11D54",
        "U+11D55", "U+11D56", "U+11D57", "U+11D58", "U+11D59">>,
      <<"U+11DA0", "U+11DA1", "U+11DA2", "U+11DA3", "U+11DA4",
        "U+11DA5", "U+11DA6", "U+11DA7", "U+11DA8", "U+11DA9">>,
      <<"U+16A60", "U+16A61", "U+16A62", "U+16A63", "U+16A64",
        "U+16A65", "U+16A66", "U+16A67", "U+16A68", "U+16A69">>,
      <<"U+16AC0", "U+16AC1", "U+16AC2", "U+16AC3", "U+16AC4",
        "U+16AC5", "U+16AC6", "U+16AC7", "U+16AC8", "U+16AC9">>,
      <<"U+16B50", "U+16B51", "U+16B52", "U+16B53", "U+16B54",
        "U+16B55", "U+16B56", "U+16B57", "U+16B58", "U+16B59">>,
      <<"U+1D7CE", "U+1D7CF", "U+1D7D0", "U+1D7D1", "U+1D7D2",
        "U+1D7D3", "U+1D7D4", "U+1D7D5", "U+1D7D6", "U+1D7D7">>,
      <<"U+1D7D8", "U+1D7D9", "U+1D7DA", "U+1D7DB", "U+1D7DC",
        "U+1D7DD", "U+1D7DE", "U+1D7DF", "U+1D7E0", "U+1D7E1">>,
      <<"U+1D7E2", "U+1D7E3", "U+1D7E4", "U+1D7E5", "U+1D7E6",
        "U+1D7E7", "U+1D7E8", "U+1D7E9", "U+1D7EA", "U+1D7EB">>,
      <<"U+1D7EC", "U+1D7ED", "U+1D7EE", "U+1D7EF", "U+1D7F0",
        "U+1D7F1", "U+1D7F2", "U+1D7F3", "U+1D7F4", "U+1D7F5">>,
      <<"U+1D7F6", "U+1D7F7", "U+1D7F8", "U+1D7F9", "U+1D7FA",
        "U+1D7FB", "U+1D7FC", "U+1D7FD", "U+1D7FE", "U+1D7FF">>,
      <<"U+1E140", "U+1E141", "U+1E142", "U+1E143", "U+1E144",
        "U+1E145", "U+1E146", "U+1E147", "U+1E148", "U+1E149">>,
      <<"U+1E2F0", "U+1E2F1", "U+1E2F2", "U+1E2F3", "U+1E2F4",
        "U+1E2F5", "U+1E2F6", "U+1E2F7", "U+1E2F8", "U+1E2F9">>,
      <<"U+1E950", "U+1E951", "U+1E952", "U+1E953", "U+1E954",
        "U+1E955", "U+1E956", "U+1E957", "U+1E958", "U+1E959">>,
      <<"U+1FBF0", "U+1FBF1", "U+1FBF2", "U+1FBF3", "U+1FBF4",
        "U+1FBF5", "U+1FBF6", "U+1FBF7", "U+1FBF8", "U+1FBF9">>>>

DigitSet == {Digits[r][i] : r \in DOMAIN Digits, i \in 1..10}

IsDigit(c) == c \in DigitSet

DigitVal(c) == (CHOOSE i \in 1..10 : \E r \in DOMAIN Digits : Digits[r][i] = c) - 1

RECURSIVE DigitsVal(_)
DigitsVal(s) ==
    IF s = <<>> THEN 0
    ELSE 10 * DigitsVal(SubSeq(s, 1, Len(s) - 1)) + DigitVal(s[Len(s)])

\* s.replace("+", "")
RemovePlus(s) == SelectSeq(s, LAMBDA c : c # "+")

\* the characters str.strip() removes and \s matches: those with str.isspace()
Whitespace ==
    {
     "\t", "\n", "U+000B", "U+000C", "U+000D", "U+001C",
     "U+001D", "U+001E", "U+001F", " ", "U+0085", "U+00A0",
     "U+1680", "U+2000", "U+2001", "U+2002", "U+2003", "U+2004",
     "U+2005", "U+2006", "U+2007", "U+2008", "U+2009", "U+200A",
     "U+2028", "U+2029", "U+202F", "U+205F", "U+3000"}

\* the whitespace int() skips around a literal
IntSpace == Whitespace \ {"U+001C", "U+001D", "U+001E", "U+001F"}

\* s without the characters of ws at its start
RECURSIVE LStripOf(_, _)
LStripOf(s, ws) == IF s # <<>> /\ s[1] \in ws THEN LStripOf(Tail(s), ws) ELSE s

\* s without the characters of ws at its end
RECURSIVE RStripOf(_, _)
RStripOf(s, ws) ==
    IF s # <<>> /\ s[Len(s)] \in ws THEN RStripOf(SubSeq(s, 1, Len(s) - 1), ws) ELSE s

\* the literal of int(s) without the whitespace around it and without its sign
IntBody(s) ==
    LET t == RStripOf(LStripOf(s, IntSpace), IntSpace)
    IN  IF t # <<>> /\ t[1] \in {"-", "+"} THEN Tail(t) ELSE t

\* whether int(s) returns, else ValueError: whitespace, an optional sign, then
\* decimal digits with single underscores between them, then whitespace
IsIntLiteral(s) ==
    LET body == IntBody(s)
    IN  /\ body # <<>>
        /\ IsDigit(body[1])
        /\ IsDigit(body[Len(body)])
        /\ \A i \in DOMAIN body :
              \/ IsDigit(body[i])
              \/ body[i] = "_" /\ i > 1 /\ body[i - 1] # "_"

\* int(s) for a literal s
PyInt(s) ==
    LET t == LStripOf(s, IntSpace)
        n == DigitsVal(SelectSeq(IntBody(s), IsDigit))
    IN  IF t[1] = "-" THEN 0 - n ELSE n

RECURSIVE NatToStr(_)
NatToStr(n) ==
    IF n < 10 THEN <<AsciiDigits[n + 1]>>
    ELSE Append(NatToStr(n \div 10), AsciiDigits[(n % 10) + 1])

\* the JSON text of a Python int
IntToStr(n) == IF n < 0 THEN <<"-">> \o NatToStr(0 - n) ELSE NatToStr(n)

\* state.update_data(key=value) on the dict d
UpdateData(d, key, value) ==
    [x \in (DOMAIN d) \cup {key} |-> IF x = key THEN value ELSE d[x]]

EmptyDict == [x \in {} |-> "None"]

(***************************************************************************)
(* Registry accessors and persistence                                      *)
(***************************************************************************)
\* get_box(k): the live rectangle of k as a Coords
get_box(k) == Coords(COORDS[k]["x"], COORDS[k]["y"], COORDS[k]["w"], COORDS[k]["h"])

\* refresh_boxes(): TIME_BOX .. WALLET_BOX rebuilt from the registry
refresh_boxes(coords) ==
    [k \in Names |-> Coords(coords[k]["x"], coords[k]["y"], coords[k]["w"], coords[k]["h"])]

NoCoords == [k \in {} |-> <<>>]

\* json text of the registry: every integer written as its decimal numeral
DumpCoords(coords) ==
    [k \in DOMAIN coords |-> [a \in DOMAIN coords[k] |-> IntToStr(coords[k][a])]]

\* a save that writes the built-in rectangles, whatever registry it is given
save_coords_to_json_builtin(file, coords) ==
    [exists |-> TRUE,
     BOT_TOKEN |-> IF file.exists THEN file.BOT_TOKEN ELSE "",
     has_coords |-> TRUE,
     coords |-> DumpCoords(DefaultCoords)]

\* save_coords_to_json(path, coords): the registry is written under the
\* document's coordinate key, a token the file already holds is kept
save_coords_to_json(file, coords) ==
    [exists |-> TRUE,
     BOT_TOKEN |-> IF file.exists THEN file.BOT_TOKEN ELSE "",
     has_coords |-> TRUE,
     coords |-> DumpCoords(coords)]

\* reading the saved rectangles back: json.loads of every numeral
LoadCoords(file) ==
    [k \in DOMAIN file.coords |->
        [a \in DOMAIN file.coords[k] |-> PyInt(file.coords[k][a])]]

\* the picture render_debug_overlay() draws: per field the outline and the label
OverlayImage ==
    [k \in Names |->
        LET c == get_box(k)
        IN  [outline |-> <<c.x, c.y, c.x + c.w, c.y + c.h>>,
             label |-> <<k, c.x, c.y, c.w, c.h>>]]

NoImage == [k \in {} |-> <<>>]

\* render_debug_overlay(): opens the template, draws every box, saves the PNG
render_debug_overlay == [exists |-> TRUE, image |-> OverlayImage]

(***************************************************************************)
(* What a handler reports                                                  *)
(***************************************************************************)
\* data:   the parts of cq.data the handler read, or the text of the message
\* answer: the text of cq.answer ("none": not called, "empty": no text)
\* view:   the message text/keyboard sent or edited in; view_k its field
\* doc:    the file answer_document uploaded in this step
\* exc:    the exception that left the handler
Report(u, handler, data, answer, alert, view, view_k, doc, exc) ==
    [user |-> u, handler |-> handler, data |-> data, answer |-> answer,
     alert |-> alert, view |-> view, view_k |-> view_k, doc |-> doc, exc |-> exc]

NoReport == Report("None", "none", <<>>, "none", FALSE, "none", "None", "none", "none")

(***************************************************************************)
(* Initial state: module import, nobody in a conversation                  *)
(***************************************************************************)
TokenFile == [exists |-> TRUE, BOT_TOKEN |-> "token", has_coords |-> FALSE, coords |-> NoCoords]

\* no wallet text under test
NoWrap == [base |-> <<>>, text |-> <<>>, out |-> <<>>, done |-> FALSE]

\* nothing suspended, no card rendered or sent, no keyboard message, for the users us
FlowInit(us) ==
    /\ pending = [u \in us |-> EmptyBag]
    /\ output_png = [exists |-> FALSE, image |-> NoImage]
    /\ sent = [user |-> "None", doc |-> "none", image |-> NoImage]
    /\ shown = [u \in us |-> <<>>]
    /\ adj_log = <<>>
    /\ n_updates = 0

\* the bot has started polling and the users us have sent nothing yet
StartUp(us) ==
    /\ fsm_state = [u \in us |-> "None"]
    /\ fsm_data = [u \in us |-> EmptyDict]
    /\ COORDS = DefaultCoords
    /\ BOXES = DefaultCoords
    /\ config_json = TokenFile
    /\ template_exists \in BOOLEAN
    /\ debug_overlay_png = [exists |-> FALSE, image |-> NoImage]
    /\ n_adjusted = 0
    /\ last = NoReport
    /\ FlowInit(us)

Init == StartUp(Users) /\ wrap = NoWrap

(***************************************************************************)
(* wrap_mono and the form's validators                                     *)
(***************************************************************************)
\* max_chars of the wallet's wrap_mono call
WalletChars == 34

\* s.strip()
LStrip(s) == LStripOf(s, Whitespace)

RStrip(s) == RStripOf(s, Whitespace)

Strip(s) == RStrip(LStrip(s))

Min(a, b) == IF a <= b THEN a ELSE b

\* [t[i:i+max_chars] for i in range(0, len(t), max_chars)]
Chunks(t, max_chars) ==
    [j \in 1..((Len(t) + max_chars - 1) \div max_chars) |->
        SubSeq(t, (j - 1) * max_chars + 1, Min(j * max_chars, Len(t)))]

\* "\n".join(lines)
RECURSIVE JoinLines(_)
JoinLines(lines) ==
    IF lines = <<>> THEN <<>>
    ELSE IF Len(lines) = 1 THEN lines[1]
    ELSE lines[1] \o <<"\n">> \o JoinLines(Tail(lines))

\* a wrap_mono that joins every chunk
wrap_mono_all_lines(text, max_chars) ==
    LET t == SelectSeq(Strip(text), LAMBDA c : c \notin Whitespace)
    IN  IF t = <<>> THEN <<>> ELSE JoinLines(Chunks(t, max_chars))

wrap_mono(text, max_chars) ==
    LET t == SelectSeq(Strip(text), LAMBDA c : c \notin Whitespace)
        lines == Chunks(t, max_chars)
    IN  IF t = <<>> THEN <<>> ELSE JoinLines(SubSeq(lines, 1, Min(2, Len(lines))))

\* clamp_int: the characters [0-9] of v read as one number, 0 when there are none
clamp_int(v, lo, hi) ==
    LET n == DigitsVal(SelectSeq(v, IsAsciiDigit))
    IN  Max(lo, Min(hi, n))

\* s.replace(a, b) for single characters
Replace(s, a, b) == [i \in DOMAIN s |-> IF s[i] = a THEN b ELSE s[i]]

AllDigits(s) == \A i \in DOMAIN s : IsDigit(s[i])

\* f"{n:02d}"
Pad2(n) == IF n < 10 THEN <<"0">> \o NatToStr(n) ELSE NatToStr(n)

\* validate_time: the returned string, or the ValueError raised
validate_time(s0) ==
    LET s == Replace(Strip(s0), ".", ":")
        n == Len(s)
        m == /\ n \in {4, 5}
             /\ s[n - 2] = ":"
             /\ AllDigits(SubSeq(s, 1, n - 3))
             /\ AllDigits(SubSeq(s, n - 1, n))
        hh == DigitsVal(SubSeq(s, 1, n - 3))
        mm == DigitsVal(SubSeq(s, n - 1, n))
    IN  IF ~m THEN [exc |-> "ValueError: format", value |-> <<>>]
        ELSE IF ~(0 <= hh /\ hh <= 23 /\ 0 <= mm /\ mm <= 59)
             THEN [exc |-> "ValueError: range", value |-> <<>>]
        ELSE [exc |-> "none", value |-> Pad2(hh) \o <<":">> \o Pad2(mm)]

\* re.fullmatch(r"\d+(\.\d+)?", s)
IsDecimal(s) ==
    \/ s # <<>> /\ AllDigits(s)
    \/ \E i \in 2..(Len(s) - 1) :
          /\ s[i] = "."
          /\ AllDigits(SubSeq(s, 1, i - 1))
          /\ AllDigits(SubSeq(s, i + 1, Len(s)))

\* normalize_amount: the returned string, or the ValueError raised
normalize_amount(s0) ==
    LET s == Replace(Strip(s0), ",", ".")
    IN  IF ~IsDecimal(s) THEN [exc |-> "ValueError", value |-> <<>>]
        ELSE [exc |-> "none", value |-> s]

\* distinct characters, so that a dropped or moved character shows
WalletAlphabet ==
    <<"0", "1", "2", "3", "4", "5", "6", "7", "8", "9",
      "a", "b", "c", "d", "e", "f", "g", "h", "i", "j", "k", "l", "m",
      "n", "o", "p", "q", "r", "s", "t", "u", "v", "w", "x", "y", "z",
      "A", "B", "C", "D", "E", "F", "G", "H", "I", "J", "K", "L", "M",
      "N", "O", "P", "Q", "R", "S", "T", "U", "V", "W", "X", "Y", "Z",
      "-", "_", ".", ":", "/", "+", "=", "@", "#", "$", "%", "&", "*",
      "!", "?", "<", ">", "~">>

(***************************************************************************)
(* Handlers suspended at an await                                          *)
(***************************************************************************)
\* a handler task suspended with code still to run; msg is the place in
\* shown of the message it goes on to edit, 0 when it edits none
Cont(handler, m) == [handler |-> handler, msg |-> m]

RECURSIVE Suspended(_)
Suspended(us) ==
    IF us = {} THEN 0
    ELSE LET u == CHOOSE x \in us : TRUE
         IN  BagCardinality(pending[u]) + Suspended(us \ {u})

\* start_polling runs the handler of every update as a task of its own,
\* whatever else is waiting: a handler that will be suspended starts as long
\* as the bound on suspended handlers allows
MayStart == Suspended(DOMAIN pending) < MaxInFlight

Suspend(u, handler, m) ==
    pending' = [pending EXCEPT ![u] = @ (+) SetToBag({Cont(handler, m)})]

\* the suspended handler c of u has run to its end
Finish(u, c) == pending' = [pending EXCEPT ![u] = @ (-) SetToBag({c})]

\* the suspended handlers of u
Waiting(u) == BagToSet(pending[u])

\* how many handlers h are suspended in the bag p
InFlight(p, h) == CopiesIn(Cont(h, 0), p)

(***************************************************************************)
(* The filters of the message handlers, in the order they are registered:  *)
(* debug, start, then the four form steps                                  *)
(***************************************************************************)
\* a message without text has the text <<>>
DebugText == <<"/", "d", "e", "b", "u", "g">>

UpperCase ==
    <<"A", "B", "C", "D", "E", "F", "G", "H", "I", "J", "K", "L", "M",
      "N", "O", "P", "Q", "R", "S", "T", "U", "V", "W", "X", "Y", "Z">>

LowerCase ==
    <<"a", "b", "c", "d", "e", "f", "g", "h", "i", "j", "k", "l", "m",
      "n", "o", "p", "q", "r", "s", "t", "u", "v", "w", "x", "y", "z">>

\* c.lower(), for the characters it turns into an ASCII letter
Lower(c) ==
    IF \E i \in DOMAIN UpperCase : UpperCase[i] = c
    THEN LowerCase[CHOOSE i \in DOMAIN UpperCase : UpperCase[i] = c]
    ELSE IF c = "U+212A" THEN "k" ELSE c

LowerAll(s) == [i \in DOMAIN s |-> Lower(s[i])]

\* the username get_me reports for the bot's token
BotUsername == <<"p", "i", "s", "a", "k", "a", "_", "b", "o", "t">>

\* the length of the run of non-whitespace characters s starts with
RECURSIVE WordLen(_)
WordLen(s) == IF s = <<>> \/ s[1] \in Whitespace THEN 0 ELSE 1 + WordLen(Tail(s))

\* text.split(maxsplit=1)[0], <<>> when the text has no word
FirstWord(text) == LET t == LStrip(text) IN SubSeq(t, 1, WordLen(t))

\* the place of the first "@" of s, Len(s) + 1 when it has none
RECURSIVE AtSign(_)
AtSign(s) == IF s = <<>> \/ s[1] = "@" THEN 1 ELSE 1 + AtSign(Tail(s))

\* CommandStart(): the first word is "/start", alone or followed by "@" and
\* the bot's username in any letter case; what follows the word is not looked at
CommandStart(text) ==
    LET full == FirstWord(text)
        rest == Tail(full)
        at == AtSign(rest)
        command == SubSeq(rest, 1, at - 1)
        mention == SubSeq(rest, at + 1, Len(rest))
    IN  /\ full # <<>>
        /\ full[1] = "/"
        /\ command = <<"s", "t", "a", "r", "t">>
        /\ mention = <<>> \/ LowerAll(mention) = LowerAll(BotUsername)

\* the text passes debug and start by and reaches the handlers filtered on the state
ToForm(text) == text # DebugText /\ ~CommandStart(text)

(***************************************************************************)
(* /debug                                                                  *)
(***************************************************************************)
\* the number of keyboard messages in the chats of the users us
RECURSIVE Displayed(_)
Displayed(us) ==
    IF us = {} THEN 0
    ELSE LET u == CHOOSE x \in us : TRUE
         IN  Len(shown[u]) + Displayed(us \ {u})

debug(u, text) ==
    /\ text = DebugText
    /\ Displayed(DOMAIN shown) < MaxMessages
    /\ fsm_state' = [fsm_state EXCEPT ![u] = "Debug:choosing"]
    /\ fsm_data' = [fsm_data EXCEPT ![u] = UpdateData(@, "debug_selected", "None")]
    /\ shown' = [shown EXCEPT ![u] = Append(@, "choose")]
    /\ last' = Report(u, "debug", text, "none", FALSE, "coords_text", "None", "none", "none")
    /\ UNCHANGED <<regvars, pending, output_png, sent>>

(***************************************************************************)
(* callback "noop"                                                         *)
(***************************************************************************)
noop_cb(u, parts) ==
    /\ parts = <<"noop">>
    /\ last' = Report(u, "noop_cb", <<"noop">>, "empty", FALSE, "none", "None", "none", "none")
    /\ UNCHANGED <<fsm_state, fsm_data, regvars, pending, output_png, sent, shown>>

(***************************************************************************)
(* Keyboards: the callback data of the buttons they carry                  *)
(***************************************************************************)
\* f"-{s}" and f"+{s}"
Minus(s) == <<"-">> \o IntToStr(s)
Plus(s) == <<"+">> \o IntToStr(s)

steps == {1, 5, 10}

debug_keyboard ==
    {<<"dbg", "sel", k>> : k \in Names}
        \cup {<<"dbg", "apply">>, <<"dbg", "download">>, <<"dbg", "overlay">>}

adjust_keyboard(k) ==
    {<<"dbg", "adj", k, a, d>> :
        a \in {"x", "y"}, d \in {Minus(s) : s \in steps} \cup {Plus(s) : s \in steps}}
        \cup {<<"noop">>}
        \cup {<<"dbg", "adj", k, a, d>> : a \in {"w", "h"}, d \in {Minus(10), Plus(10)}}
        \cup {<<"dbg", "apply">>, <<"dbg", "back">>}

\* the buttons of a message that reads view: "choose" is the field list,
\* a field-name the adjustment view of that field
Keyboard(view) == IF view = "choose" THEN debug_keyboard ELSE adjust_keyboard(view)

\* u presses the button parts of the message m of their chat
Press(u, m, parts) == m \in DOMAIN shown[u] /\ parts \in Keyboard(shown[u][m])

(***************************************************************************)
(* debug_choose_cb: callbacks "dbg:..." while the user is in Debug.choosing, *)
(* sent from the message m                                                 *)
(***************************************************************************)
\* sel up to its first await: the selection and the state are stored, then
\* the message is edited into the adjustment view (the labels are looked up
\* for its text); cq.answer comes when the handler resumes
choose_sel(u, m, parts) ==
    /\ parts[2] = "sel"
    /\ IF Len(parts) < 3
       THEN /\ last' = Report(u, "debug_choose_cb", parts, "none", FALSE, "none", "None",
                              "none", "IndexError")
            /\ UNCHANGED <<fsm_state, fsm_data, shown, pending>>
       ELSE LET k == parts[3] IN
            /\ fsm_data' = [fsm_data EXCEPT ![u] = UpdateData(@, "debug_selected", k)]
            /\ fsm_state' = [fsm_state EXCEPT ![u] = "Debug:adjusting"]
            /\ IF k \in DOMAIN COORD_LABELS /\ k \in DOMAIN COORDS
               THEN /\ MayStart
                    /\ shown' = [shown EXCEPT ![u][m] = k]
                    /\ Suspend(u, "sel", 0)
                    /\ last' = Report(u, "debug_choose_cb", parts, "none", FALSE,
                                      "adjust_view", k, "none", "none")
               ELSE /\ last' = Report(u, "debug_choose_cb", parts, "none", FALSE,
                                      "none", "None", "none", "KeyError")
                    /\ UNCHANGED <<shown, pending>>
    /\ UNCHANGED <<regvars, output_png, sent>>

\* apply up to its first await: the registry is saved and the boxes are
\* refreshed, then cq.answer is awaited; the message is edited when the
\* handler resumes
choose_apply(u, m, parts) ==
    /\ parts[2] = "apply"
    /\ MayStart
    /\ config_json' = save_coords_to_json(config_json, COORDS)
    /\ BOXES' = refresh_boxes(COORDS)
    /\ Suspend(u, "apply", m)
    /\ last' = Report(u, "debug_choose_cb", parts, "saved", FALSE, "none", "None",
                      "none", "none")
    /\ UNCHANGED <<fsm_state, fsm_data, COORDS, template_exists, debug_overlay_png,
                   n_adjusted, output_png, sent, shown>>

\* choose_download sending the file as it is on disk, without saving first
choose_download_no_save(u, m, parts) ==
    /\ parts[2] = "download"
    /\ MayStart
    /\ Suspend(u, "download", 0)
    /\ last' = Report(u, "debug_choose_cb", parts, "preparing", FALSE, "none", "None",
                      "none", "none")
    /\ UNCHANGED <<fsm_state, fsm_data, regvars, output_png, sent, shown>>

\* download up to its first await: the registry is saved, then cq.answer is
\* awaited; the upload comes when the handler resumes
choose_download(u, m, parts) ==
    /\ parts[2] = "download"
    /\ MayStart
    /\ config_json' = save_coords_to_json(config_json, COORDS)
    /\ Suspend(u, "download", 0)
    /\ last' = Report(u, "debug_choose_cb", parts, "preparing", FALSE, "none", "None",
                      "none", "none")
    /\ UNCHANGED <<fsm_state, fsm_data, COORDS, BOXES, template_exists, debug_overlay_png,
                   n_adjusted, output_png, sent, shown>>

\* choose_overlay without the TEMPLATE_PATH.exists() test: the artifact is
\* written whatever the template
choose_overlay_unchecked(u, m, parts) ==
    /\ parts[2] = "overlay"
    /\ MayStart
    /\ debug_overlay_png' = render_debug_overlay
    /\ Suspend(u, "overlay", 0)
    /\ last' = Report(u, "debug_choose_cb", parts, "done", FALSE, "none", "None",
                      "none", "none")
    /\ UNCHANGED <<fsm_state, fsm_data, COORDS, BOXES, config_json, template_exists,
                   n_adjusted, output_png, sent, shown>>

\* overlay up to its first await: without the template an alert and nothing
\* else; with it the overlay is rendered to debug_overlay.png, then cq.answer
\* is awaited; the upload comes when the handler resumes
choose_overlay(u, m, parts) ==
    /\ parts[2] = "overlay"
    /\ IF ~template_exists
       THEN /\ last' = Report(u, "debug_choose_cb", parts, "template_missing", TRUE, "none",
                              "None", "none", "none")
            /\ UNCHANGED <<debug_overlay_png, pending>>
       ELSE /\ MayStart
            /\ debug_overlay_png' = render_debug_overlay
            /\ Suspend(u, "overlay", 0)
            /\ last' = Report(u, "debug_choose_cb", parts, "done", FALSE, "none", "None",
                              "none", "none")
    /\ UNCHANGED <<fsm_state, fsm_data, COORDS, BOXES, config_json, template_exists,
                   n_adjusted, output_png, sent, shown>>

choose_other(u, m, parts) ==
    /\ parts[2] \notin {"sel", "apply", "download", "overlay"}
    /\ last' = Report(u, "debug_choose_cb", SubSeq(parts, 1, 2), "empty", FALSE, "none", "None",
                      "none", "none")
    /\ UNCHANGED <<fsm_state, fsm_data, regvars, pending, output_png, sent, shown>>

debug_choose_cb(u, m, parts) ==
    /\ fsm_state[u] = "Debug:choosing"
    /\ m \in DOMAIN shown[u]
    /\ Len(parts) >= 2
    /\ parts[1] = "dbg"
    /\ \/ choose_sel(u, m, parts)
       \/ choose_apply(u, m, parts)
       \/ choose_download(u, m, parts)
       \/ choose_overlay(u, m, parts)
       \/ choose_other(u, m, parts)

(***************************************************************************)
(* debug_adjust_cb: callbacks "dbg:..." while the user is in               *)
(* Debug.adjusting, sent from the message m                                *)
(***************************************************************************)
\* adjust_apply that also leaves the adjustment view
adjust_apply_leaves(u, m, parts) ==
    /\ parts[2] = "apply"
    /\ config_json' = save_coords_to_json(config_json, COORDS)
    /\ BOXES' = refresh_boxes(COORDS)
    /\ fsm_state' = [fsm_state EXCEPT ![u] = "Debug:choosing"]
    /\ last' = Report(u, "debug_adjust_cb", parts, "saved", FALSE, "none", "None", "none", "none")
    /\ UNCHANGED <<fsm_data, COORDS, template_exists, debug_overlay_png, n_adjusted,
                   pending, output_png, sent, shown>>

adjust_apply(u, m, parts) ==
    /\ parts[2] = "apply"
    /\ config_json' = save_coords_to_json(config_json, COORDS)
    /\ BOXES' = refresh_boxes(COORDS)
    /\ last' = Report(u, "debug_adjust_cb", parts, "saved", FALSE, "none", "None", "none", "none")
    /\ UNCHANGED <<fsm_state, fsm_data, COORDS, template_exists, debug_overlay_png,
                   n_adjusted, pending, output_png, sent, shown>>

\* adjust_back without update_data(debug_selected=None)
adjust_back_keeps_selected(u, m, parts) ==
    /\ parts[2] = "back"
    /\ MayStart
    /\ fsm_state' = [fsm_state EXCEPT ![u] = "Debug:choosing"]
    /\ shown' = [shown EXCEPT ![u][m] = "choose"]
    /\ Suspend(u, "back", 0)
    /\ last' = Report(u, "debug_adjust_cb", parts, "none", FALSE, "coords_text", "None",
                      "none", "none")
    /\ UNCHANGED <<fsm_data, regvars, output_png, sent>>

\* a back that throws the unsaved adjustments away
adjust_back_discards(u, m, parts) ==
    /\ parts[2] = "back"
    /\ MayStart
    /\ fsm_state' = [fsm_state EXCEPT ![u] = "Debug:choosing"]
    /\ fsm_data' = [fsm_data EXCEPT ![u] = UpdateData(@, "debug_selected", "None")]
    /\ COORDS' = DefaultCoords
    /\ BOXES' = refresh_boxes(DefaultCoords)
    /\ shown' = [shown EXCEPT ![u][m] = "choose"]
    /\ Suspend(u, "back", 0)
    /\ last' = Report(u, "debug_adjust_cb", parts, "none", FALSE, "coords_text", "None",
                      "none", "none")
    /\ UNCHANGED <<config_json, template_exists, debug_overlay_png, n_adjusted,
                   output_png, sent>>

\* back up to its first await: the state and the selection are reset and the
\* message is edited into the field list; cq.answer comes when the handler
\* resumes
adjust_back(u, m, parts) ==
    /\ parts[2] = "back"
    /\ MayStart
    /\ fsm_state' = [fsm_state EXCEPT ![u] = "Debug:choosing"]
    /\ fsm_data' = [fsm_data EXCEPT ![u] = UpdateData(@, "debug_selected", "None")]
    /\ shown' = [shown EXCEPT ![u][m] = "choose"]
    /\ Suspend(u, "back", 0)
    /\ last' = Report(u, "debug_adjust_cb", parts, "none", FALSE, "coords_text", "None",
                      "none", "none")
    /\ UNCHANGED <<regvars, output_png, sent>>

\* clamp with the position branch left out
clamp_positions_unclamped(field, v) == IF field \in {"w", "h"} THEN Max(1, v) ELSE v

\* clamp with one floor, 0, for every component
clamp_floor_zero(field, v) == Max(0, v)

\* the fall-through treating every other action as a request to save
adjust_other_saves(u, m, parts) ==
    /\ parts[2] \notin {"apply", "back", "adj"}
    /\ config_json' = save_coords_to_json(config_json, COORDS)
    /\ last' = Report(u, "debug_adjust_cb", SubSeq(parts, 1, 2), "empty", FALSE, "none", "None",
                      "none", "none")
    /\ UNCHANGED <<fsm_state, fsm_data, COORDS, BOXES, template_exists, debug_overlay_png,
                   n_adjusted, pending, output_png, sent, shown>>

\* the clamp of the component just written
clamp(field, v) == IF field \in {"w", "h"} THEN Max(1, v) ELSE Max(0, v)

\* the assignment written with setdefault/get: an unknown k or field is created
adj_result_setdefault(coords, k, field, delta_s) ==
    IF ~IsIntLiteral(RemovePlus(delta_s))
    THEN [exc |-> "ValueError", coords |-> coords]
    ELSE LET rect == IF k \in DOMAIN coords THEN coords[k] ELSE [a \in {} |-> 0]
             old == IF field \in DOMAIN rect THEN rect[field] ELSE 0
             v == IF field \in {"w", "h"}
                  THEN Max(1, old + PyInt(RemovePlus(delta_s)))
                  ELSE Max(0, old + PyInt(RemovePlus(delta_s)))
             rect2 == [a \in (DOMAIN rect) \cup {field} |-> IF a = field THEN v ELSE rect[a]]
         IN  [exc |-> "none",
              coords |-> [n \in (DOMAIN coords) \cup {k} |-> IF n = k THEN rect2 ELSE coords[n]]]

\* the component read with get(field, 0) and validated only after the write:
\* an unknown field raises with the rectangle already changed
adj_result_write_first(coords, k, field, delta_s) ==
    IF ~IsIntLiteral(RemovePlus(delta_s))
    THEN [exc |-> "ValueError", coords |-> coords]
    ELSE IF k \notin DOMAIN coords
    THEN [exc |-> "KeyError", coords |-> coords]
    ELSE LET old == IF field \in DOMAIN coords[k] THEN coords[k][field] ELSE 0
             v == IF field \in {"w", "h"}
                  THEN Max(1, old + PyInt(RemovePlus(delta_s)))
                  ELSE Max(0, old + PyInt(RemovePlus(delta_s)))
             rect2 == [a \in (DOMAIN coords[k]) \cup {field} |->
                          IF a = field THEN v ELSE coords[k][a]]
         IN  [exc |-> IF field \in DOMAIN coords[k] THEN "none" ELSE "KeyError",
              coords |-> [coords EXCEPT ![k] = rect2]]

\* adj_result adding the delta to the value the field had at import
adj_result_from_builtin(coords, k, field, delta_s) ==
    IF ~IsIntLiteral(RemovePlus(delta_s))
    THEN [exc |-> "ValueError", coords |-> coords]
    ELSE IF k \notin DOMAIN coords \/ field \notin DOMAIN coords[k]
    THEN [exc |-> "KeyError", coords |-> coords]
    ELSE [exc |-> "none",
          coords |-> [coords EXCEPT ![k][field] =
                         clamp(field, DefaultCoords[k][field] + PyInt(RemovePlus(delta_s)))]]

\* delta = int(delta_s.replace("+", "")); COORDS[k][field] = int(COORDS[k][field]) + delta;
\* clamp.  The right-hand side is read before the item is assigned, so an unknown
\* k or field raises KeyError with the registry untouched.
adj_result(coords, k, field, delta_s) ==
    IF ~IsIntLiteral(RemovePlus(delta_s))
    THEN [exc |-> "ValueError", coords |-> coords]
    ELSE IF k \notin DOMAIN coords \/ field \notin DOMAIN coords[k]
    THEN [exc |-> "KeyError", coords |-> coords]
    ELSE [exc |-> "none",
          coords |-> [coords EXCEPT ![k][field] = clamp(field, @ + PyInt(RemovePlus(delta_s)))]]

\* adj up to its first await: the component is written and the boxes are
\* refreshed, then the message is edited into the adjustment view of the
\* button's field; cq.answer comes when the handler resumes
adjust_adj(u, m, parts) ==
    /\ parts[2] = "adj"
    /\ IF Len(parts) < 5
       THEN /\ last' = Report(u, "debug_adjust_cb", parts, "none", FALSE, "none", "None",
                              "none", "IndexError")
            /\ UNCHANGED <<COORDS, BOXES, n_adjusted, shown, pending>>
       ELSE LET r == adj_result(COORDS, parts[3], parts[4], parts[5]) IN
            IF r.exc # "none"
            THEN /\ last' = Report(u, "debug_adjust_cb", parts, "none", FALSE, "none", "None",
                                   "none", r.exc)
                 /\ COORDS' = r.coords
                 /\ UNCHANGED <<BOXES, n_adjusted, shown, pending>>
            ELSE /\ n_adjusted < MaxAdjusts
                 /\ MayStart
                 /\ COORDS' = r.coords
                 /\ BOXES' = refresh_boxes(r.coords)
                 /\ n_adjusted' = n_adjusted + 1
                 /\ shown' = [shown EXCEPT ![u][m] = parts[3]]
                 /\ Suspend(u, "adj", 0)
                 /\ last' = Report(u, "debug_adjust_cb", parts, "none", FALSE, "adjust_view",
                                   parts[3], "none", "none")
    /\ UNCHANGED <<fsm_state, fsm_data, config_json, template_exists, debug_overlay_png,
                   output_png, sent>>

adjust_other(u, m, parts) ==
    /\ parts[2] \notin {"apply", "back", "adj"}
    /\ last' = Report(u, "debug_adjust_cb", SubSeq(parts, 1, 2), "empty", FALSE, "none", "None",
                      "none", "none")
    /\ UNCHANGED <<fsm_state, fsm_data, regvars, pending, output_png, sent, shown>>

debug_adjust_cb(u, m, parts) ==
    /\ fsm_state[u] = "Debug:adjusting"
    /\ m \in DOMAIN shown[u]
    /\ Len(parts) >= 2
    /\ parts[1] = "dbg"
    /\ \/ adjust_apply(u, m, parts)
       \/ adjust_back(u, m, parts)
       \/ adjust_adj(u, m, parts)
       \/ adjust_other(u, m, parts)

(***************************************************************************)
(* The calibration handlers after their first await                        *)
(***************************************************************************)
\* edit_text returned to a select, a back or an adjust: cq.answer() and the
\* handler ends
resume_answer(u) ==
    \E c \in Waiting(u) :
        /\ c.handler \in {"sel", "back", "adj"}
        /\ Finish(u, c)
        /\ last' = Report(u, "resumed", <<>>, "empty", FALSE, "none", "None",
                          "none", "none")
        /\ UNCHANGED <<fsm_state, fsm_data, regvars, output_png, sent, shown>>

\* cq.answer returned to an apply: its message is edited into the field list
resume_apply(u) ==
    \E c \in Waiting(u) :
        /\ c.handler = "apply"
        /\ shown' = [shown EXCEPT ![u][c.msg] = "choose"]
        /\ Finish(u, c)
        /\ last' = Report(u, "resumed", <<>>, "none", FALSE, "coords_text", "None",
                          "none", "none")
        /\ UNCHANGED <<fsm_state, fsm_data, regvars, output_png, sent>>

\* the file a suspended handler goes on to upload
DocOf(handler) == IF handler = "download" THEN "config.json" ELSE "debug_overlay.png"

\* cq.answer returned to a download or an overlay: answer_document uploads
\* what FSInputFile finds at the path by then, and the handler ends
resume_document(u) ==
    \E c \in Waiting(u) :
        /\ c.handler \in {"download", "overlay"}
        /\ LET file == IF c.handler = "download" THEN config_json ELSE debug_overlay_png
           IN  IF file.exists
               THEN /\ sent' = [user |-> u, doc |-> DocOf(c.handler),
                                image |-> IF c.handler = "download" THEN file ELSE file.image]
                    /\ last' = Report(u, "resumed", <<>>, "none", FALSE, "none", "None",
                                      DocOf(c.handler), "none")
               ELSE /\ last' = Report(u, "resumed", <<>>, "none", FALSE, "none", "None",
                                      "none", "FileNotFoundError")
                    /\ UNCHANGED sent
        /\ Finish(u, c)
        /\ UNCHANGED <<fsm_state, fsm_data, regvars, output_png, shown>>

\* debug_overlay.png is taken off the disk while the bot runs
remove_overlay ==
    /\ debug_overlay_png.exists
    /\ debug_overlay_png' = [exists |-> FALSE, image |-> NoImage]
    /\ last' = NoReport
    /\ UNCHANGED <<fsm_state, fsm_data, COORDS, BOXES, config_json, template_exists,
                   n_adjusted, pending, output_png, sent, shown>>

(***************************************************************************)
(* The end-user form: /start, battery, time, amount, wallet and the card   *)
(***************************************************************************)
\* random.randint(1000000, 9999999) returns any integer of the range
OpIdLo == 1000000
OpIdHi == 9999999

randint(a, b) == a..b

\* the numbers got_wallet can draw
OpIds == randint(OpIdLo, OpIdHi)

\* the tail of amount_line (its Cyrillic words transliterated)
AmountTail ==
    <<" ", "T", "O", "N", " ", "n", "a", " ", "k", "o", "s", "h", "e", "l", "e", "k", ":">>

\* draw_left writes at the box's corner
LeftAt(box) == <<box.x, box.y>>

\* draw_centered writes at the box's centre
CentreAt(box) == <<box.x + (box.w \div 2), box.y + (box.h \div 2)>>

\* a card whose battery is placed by the built-in BATT_BOX, not the live registry
CardImage_builtin_battery(batt, t, amt, wallet, op_id) ==
    [time |-> [at |-> LeftAt(get_box("TIME_BOX")), text |-> t],
     battery |-> [at |-> CentreAt(BATT_BOX), text |-> NatToStr(batt)],
     op_id |-> [at |-> CentreAt(get_box("OPID_BOX")),
                text |-> <<"#", "W", "D">> \o NatToStr(op_id)],
     amount |-> [at |-> LeftAt(get_box("AMOUNT_LINE")), text |-> amt \o AmountTail],
     wallet |-> [at |-> LeftAt(get_box("WALLET_BOX")),
                 text |-> wrap_mono(wallet, WalletChars)]]

\* the picture got_wallet draws on the template: per field where and what
CardImage(batt, t, amt, wallet, op_id) ==
    [time |-> [at |-> LeftAt(get_box("TIME_BOX")), text |-> t],
     battery |-> [at |-> CentreAt(get_box("BATT_BOX")), text |-> NatToStr(batt)],
     op_id |-> [at |-> CentreAt(get_box("OPID_BOX")),
                text |-> <<"#", "W", "D">> \o NatToStr(op_id)],
     amount |-> [at |-> LeftAt(get_box("AMOUNT_LINE")), text |-> amt \o AmountTail],
     wallet |-> [at |-> LeftAt(get_box("WALLET_BOX")),
                 text |-> wrap_mono(wallet, WalletChars)]]

FormStates == {"Form:battery", "Form:time", "Form:amount", "Form:wallet"}

\* a message handler's report: the prompt it answers with, the exception it leaves with
Said(u, handler, text, prompt, exc) ==
    Report(u, handler, text, "none", FALSE, prompt, "None", "none", exc)

\* start: clear(), then the greeting is awaited; set_state comes when the
\* handler resumes
start(u, text) ==
    /\ text # DebugText
    /\ CommandStart(text)
    /\ MayStart
    /\ fsm_state' = [fsm_state EXCEPT ![u] = "None"]
    /\ fsm_data' = [fsm_data EXCEPT ![u] = EmptyDict]
    /\ Suspend(u, "start", 0)
    /\ last' = Said(u, "start", text, "ask battery", "none")
    /\ UNCHANGED <<regvars, output_png, sent, shown>>

got_battery(u, text) ==
    /\ ToForm(text)
    /\ fsm_state[u] = "Form:battery"
    /\ MayStart
    /\ fsm_data' = [fsm_data EXCEPT ![u] = UpdateData(@, "battery", clamp_int(text, 0, 100))]
    /\ Suspend(u, "got_battery", 0)
    /\ last' = Said(u, "got_battery", text, "ask time", "none")
    /\ UNCHANGED <<fsm_state, regvars, output_png, sent, shown>>

got_time(u, text) ==
    /\ ToForm(text)
    /\ fsm_state[u] = "Form:time"
    /\ LET t == validate_time(text)
       IN  IF t.exc # "none"
           THEN /\ last' = Said(u, "got_time", text, "retry time", "none")
                /\ UNCHANGED <<fsm_data, pending>>
           ELSE /\ MayStart
                /\ fsm_data' = [fsm_data EXCEPT ![u] = UpdateData(@, "time", t.value)]
                /\ Suspend(u, "got_time", 0)
                /\ last' = Said(u, "got_time", text, "ask amount", "none")
    /\ UNCHANGED <<fsm_state, regvars, output_png, sent, shown>>

\* a got_amount that takes what was typed when it does not parse
got_amount_keeps_raw(u, text) ==
    /\ ToForm(text)
    /\ fsm_state[u] = "Form:amount"
    /\ MayStart
    /\ LET amt == normalize_amount(text)
       IN  /\ fsm_data' = [fsm_data EXCEPT ![u] =
                   UpdateData(@, "amount", IF amt.exc # "none" THEN text ELSE amt.value)]
           /\ Suspend(u, "got_amount", 0)
           /\ last' = Said(u, "got_amount", text, "ask wallet", "none")
    /\ UNCHANGED <<fsm_state, regvars, output_png, sent, shown>>

got_amount(u, text) ==
    /\ ToForm(text)
    /\ fsm_state[u] = "Form:amount"
    /\ LET amt == normalize_amount(text)
       IN  IF amt.exc # "none"
           THEN /\ last' = Said(u, "got_amount", text, "retry amount", "none")
                /\ UNCHANGED <<fsm_data, pending>>
           ELSE /\ MayStart
                /\ fsm_data' = [fsm_data EXCEPT ![u] = UpdateData(@, "amount", amt.value)]
                /\ Suspend(u, "got_amount", 0)
                /\ last' = Said(u, "got_amount", text, "ask wallet", "none")
    /\ UNCHANGED <<fsm_state, regvars, output_png, sent, shown>>

\* a got_wallet that opens output.png for writing before it opens the template
got_wallet_opens_output_first(u, text, op_id) ==
    /\ op_id \in OpIds
    /\ ToForm(text)
    /\ fsm_state[u] = "Form:wallet"
    /\ LET wallet == Strip(text)
           data == fsm_data[u]
       IN  IF Len(wallet) < 10
           THEN /\ last' = Said(u, "got_wallet", text, "retry wallet", "none")
                /\ UNCHANGED <<pending, output_png>>
           ELSE IF ~({"battery", "time", "amount"} \subseteq DOMAIN data)
           THEN /\ last' = Said(u, "got_wallet", text, "none", "KeyError")
                /\ UNCHANGED <<pending, output_png>>
           ELSE IF ~template_exists
           THEN /\ last' = Said(u, "got_wallet", text, "none", "FileNotFoundError")
                /\ output_png' = [exists |-> TRUE, image |-> NoImage]
                /\ UNCHANGED pending
           ELSE /\ MayStart
                /\ output_png' = [exists |-> TRUE,
                                  image |-> CardImage(data["battery"], data["time"],
                                                      data["amount"], wallet, op_id)]
                /\ Suspend(u, "got_wallet", 0)
                /\ last' = Said(u, "got_wallet", text, "none", "none")
    /\ UNCHANGED <<fsm_state, fsm_data, regvars, sent, shown>>

\* got_wallet up to its await, op_id being the number random.randint draws:
\* the card is drawn and saved to output.png; the upload and clear() come
\* when the handler resumes
got_wallet(u, text, op_id) ==
    /\ op_id \in OpIds
    /\ ToForm(text)
    /\ fsm_state[u] = "Form:wallet"
    /\ LET wallet == Strip(text)
           data == fsm_data[u]
       IN  IF Len(wallet) < 10
           THEN /\ last' = Said(u, "got_wallet", text, "retry wallet", "none")
                /\ UNCHANGED <<pending, output_png>>
           ELSE IF ~({"battery", "time", "amount"} \subseteq DOMAIN data)
           THEN /\ last' = Said(u, "got_wallet", text, "none", "KeyError")
                /\ UNCHANGED <<pending, output_png>>
           ELSE IF ~template_exists
           THEN /\ last' = Said(u, "got_wallet", text, "none", "FileNotFoundError")
                /\ UNCHANGED <<pending, output_png>>
           ELSE /\ MayStart
                /\ output_png' = [exists |-> TRUE,
                                  image |-> CardImage(data["battery"], data["time"],
                                                      data["amount"], wallet, op_id)]
                /\ Suspend(u, "got_wallet", 0)
                /\ last' = Said(u, "got_wallet", text, "none", "none")
    /\ UNCHANGED <<fsm_state, fsm_data, regvars, sent, shown>>

\* the state a suspended handler sets when its prompt has been sent
NextStep(handler) ==
    CASE handler = "start" -> "Form:battery"
      [] handler = "got_battery" -> "Form:time"
      [] handler = "got_time" -> "Form:amount"
      [] handler = "got_amount" -> "Form:wallet"

\* m.answer returned: the handler goes on to its set_state
resume_set_state(u) ==
    \E c \in Waiting(u) :
        /\ c.handler \in {"start", "got_battery", "got_time", "got_amount"}
        /\ fsm_state' = [fsm_state EXCEPT ![u] = NextStep(c.handler)]
        /\ Finish(u, c)
        /\ last' = Said(u, "resumed", <<>>, "none", "none")
        /\ UNCHANGED <<fsm_data, regvars, output_png, sent, shown>>

\* answer_document uploads what FSInputFile finds at output.png by then
resume_upload(u) ==
    \E c \in Waiting(u) :
        /\ c.handler = "got_wallet"
        /\ sent' = [user |-> u, doc |-> "output.png", image |-> output_png.image]
        /\ pending' = [pending EXCEPT ![u] =
                          (@ (-) SetToBag({c})) (+) SetToBag({Cont("got_wallet:sent", 0)})]
        /\ last' = Report(u, "resumed", <<>>, "none", FALSE, "none", "None", "output.png", "none")
        /\ UNCHANGED <<fsm_state, fsm_data, regvars, output_png, shown>>

\* answer_document returned: state.clear()
resume_clear(u) ==
    \E c \in Waiting(u) :
        /\ c.handler = "got_wallet:sent"
        /\ fsm_state' = [fsm_state EXCEPT ![u] = "None"]
        /\ fsm_data' = [fsm_data EXCEPT ![u] = EmptyDict]
        /\ Finish(u, c)
        /\ last' = Said(u, "resumed", <<>>, "none", "none")
        /\ UNCHANGED <<regvars, output_png, sent, shown>>

\* template.png is taken off the disk while the bot runs
remove_template ==
    /\ template_exists
    /\ template_exists' = FALSE
    /\ last' = NoReport
    /\ UNCHANGED <<fsm_state, fsm_data, COORDS, BOXES, config_json, debug_overlay_png,
                   n_adjusted, pending, output_png, sent, shown>>

(***************************************************************************)
(* The dispatcher: every update of one user is routed by the handlers'     *)
(* filters and its handler runs to its first await, whatever is suspended; *)
(* the suspended handlers go on in any order.  The user sends texts in any *)
(* state and callback data from any keyboard message of their chat, at     *)
(* most MaxUpdates updates in all                                          *)
(***************************************************************************)
StartText == <<"/", "s", "t", "a", "r", "t">>

\* a text that is a battery, a time and an amount at once
NumberText == <<"8", ".", "5", "2">>

\* a wallet of 12 characters, typed with a blank in front
OpWalletText == <<" ">> \o SubSeq(WalletAlphabet, 11, 22)

\* the draws of randint tried by the dispatcher: the ends of the range and a
\* number inside it (the draw after random.seed(0))
OpIdDraws == {OpIdLo, 7463343, OpIdHi}

\* the draw of randint in the scenarios that fix what every user types: one
\* number of the range for each user (the draws after random.seed(0) and
\* random.seed(1))
DrawnFor(u) == IF u = "a" THEN 7463343 ELSE 3254257

\* the texts the user sends, each of them in whatever state they are in
Messages == {DebugText, StartText, NumberText, OpWalletText}

\* the fields selected, the field whose adjustment view is used and the step
\* sizes pressed on it
SelNames == {"BATT_BOX", "WALLET_BOX"}
AdjNames == {"BATT_BOX"}
InDeltas == {Minus(10)}

\* data no keyboard of the bot carries
Forged ==
    {<<"dbg", "sel", "NOPE">>,
     <<"dbg", "foo">>,
     <<"dbg", "adj", "NOPE", "x", Minus(10)>>,
     <<"dbg", "adj", "BATT_BOX", "z", Plus(10)>>,
     <<"dbg", "adj", "BATT_BOX", "x", <<"1", "O">>>>,
     <<"dbg", "adj", "BATT_BOX", "x", <<" ", "U+0661", "_", "0">>>>,
     <<"dbg", "adj", "BATT_BOX", "w", Minus(60)>>,
     <<"dbg", "adj", "BATT_BOX", "y", Minus(60)>>}

\* the callback data delivered, from whatever keyboard message is in the chat
CallbackData ==
    {b \in debug_keyboard : b[2] = "sel" => b[3] \in SelNames}
        \cup UNION {{b \in adjust_keyboard(k) :
                        (Len(b) >= 2 /\ b[2] = "adj") => b[5] \in InDeltas} : k \in AdjNames}
        \cup Forged

\* one more update is given to the dispatcher
Delivered ==
    /\ n_updates < MaxUpdates
    /\ n_updates' = n_updates + 1
    /\ UNCHANGED <<adj_log, wrap>>

Next ==
    \E u \in Users :
       \/ \E text \in Messages : debug(u, text) /\ Delivered
       \/ \E text \in Messages : start(u, text) /\ Delivered
       \/ \E text \in Messages : got_battery(u, text) /\ Delivered
       \/ \E text \in Messages : got_time(u, text) /\ Delivered
       \/ \E text \in Messages : got_amount(u, text) /\ Delivered
       \/ \E text \in Messages : \E op_id \in OpIdDraws : got_wallet(u, text, op_id) /\ Delivered
       \/ \E m \in DOMAIN shown[u] : \E parts \in CallbackData :
             noop_cb(u, parts) /\ Delivered
       \/ \E m \in DOMAIN shown[u] : \E parts \in CallbackData :
             debug_choose_cb(u, m, parts) /\ Delivered
       \/ \E m \in DOMAIN shown[u] : \E parts \in CallbackData :
             debug_adjust_cb(u, m, parts) /\ Delivered
       \/ resume_answer(u) /\ UNCHANGED aux
       \/ resume_apply(u) /\ UNCHANGED aux
       \/ resume_document(u) /\ UNCHANGED aux
       \/ resume_set_state(u) /\ UNCHANGED aux
       \/ resume_upload(u) /\ UNCHANGED aux
       \/ resume_clear(u) /\ UNCHANGED aux

Spec == Init /\ [][Next]_vars

(***************************************************************************)
(* wrap_mono on its own: the wallet text on the card                       *)
(***************************************************************************)
\* whitespace a user may type around and inside a wallet
Pads == {<<>>, <<" ">>, <<"\t", "\n">>}

\* the places inside the wallet where whitespace is typed (0: at the front)
Gaps == {0, 5, 34, 35}

\* the wallet texts tried: base is the text without its whitespace
WalletTexts ==
    {[base |-> SubSeq(WalletAlphabet, 1, n),
      out |-> <<>>, done |-> FALSE,
      text |-> lead \o SubSeq(WalletAlphabet, 1, g) \o inner
                    \o SubSeq(WalletAlphabet, g + 1, n) \o trail] :
        <<n, g, lead, inner, trail>> \in
            {x \in (0..MaxWalletLen) \X Gaps \X Pads \X Pads \X Pads : x[2] <= x[1]}}

InitWrap == StartUp(Users) /\ \E w \in WalletTexts : wrap = w

\* got_wallet's call wrap_mono(wallet, max_chars=34), on its own
wrap_wallet ==
    /\ ~wrap.done
    /\ wrap' = [wrap EXCEPT !.out = wrap_mono(wrap.text, WalletChars), !.done = TRUE]
    /\ UNCHANGED <<fsm_state, fsm_data, regvars, last, pending, output_png, sent, shown,
                   adj_log, n_updates>>

NextWrap == wrap_wallet

SpecWrap == InitWrap /\ [][NextWrap]_vars

(***************************************************************************)
(* Two end users filling in the form at the same time                      *)
(***************************************************************************)
EndUsers == {"a", "b"}

\* what the end users type, each at the step that asks for it
BatteryText(u) == IF u = "a" THEN <<"8", "7", "%">> ELSE <<"5">>
TimeText(u) == IF u = "a" THEN <<"8", ".", "5", "2">> ELSE <<"2", "U+FF13", ":", "5", "9">>
AmountText(u) == IF u = "a" THEN <<"0", ",", "5">> ELSE <<"1", "2">>
WalletText(u) ==
    IF u = "a" THEN <<" ">> \o SubSeq(WalletAlphabet, 11, 22)
    ELSE SubSeq(WalletAlphabet, 37, 46) \o <<"\n">>

InitFlow == StartUp(EndUsers) /\ wrap = NoWrap

NextFlow ==
    \/ \E u \in EndUsers : start(u, StartText) /\ UNCHANGED aux
    \/ \E u \in EndUsers : got_battery(u, BatteryText(u)) /\ UNCHANGED aux
    \/ \E u \in EndUsers : got_time(u, TimeText(u)) /\ UNCHANGED aux
    \/ \E u \in EndUsers : got_amount(u, AmountText(u)) /\ UNCHANGED aux
    \/ \E u \in EndUsers : got_wallet(u, WalletText(u), DrawnFor(u)) /\ UNCHANGED aux
    \/ \E u \in EndUsers : resume_set_state(u) /\ UNCHANGED aux
    \/ \E u \in EndUsers : resume_upload(u) /\ UNCHANGED aux
    \/ \E u \in EndUsers : resume_clear(u) /\ UNCHANGED aux

SpecFlow == InitFlow /\ [][NextFlow]_vars

(***************************************************************************)
(* One end user, typing anything at any step                               *)
(***************************************************************************)
FormUsers == {"a"}

BadTimeText == <<"2", "4", ":", "0", "0">>
BadAmountText == <<"1", "2", ".">>

\* /start with a payload, typed after a blank
StartPayloadText == <<" ">> \o StartText \o <<" ", "x">>

\* every text is tried at every step; TimeText is a battery and an amount too
Texts(u) == {TimeText(u), BadTimeText, BadAmountText, WalletText(u), StartPayloadText}

InitForm == StartUp(FormUsers) /\ wrap = NoWrap

NextForm ==
    \/ \E u \in FormUsers : \E text \in Texts(u) : start(u, text) /\ UNCHANGED aux
    \/ \E u \in FormUsers : \E text \in Texts(u) : got_battery(u, text) /\ UNCHANGED aux
    \/ \E u \in FormUsers : \E text \in Texts(u) : got_time(u, text) /\ UNCHANGED aux
    \/ \E u \in FormUsers : \E text \in Texts(u) : got_amount(u, text) /\ UNCHANGED aux
    \/ \E u \in FormUsers : \E text \in Texts(u) : got_wallet(u, text, DrawnFor(u)) /\ UNCHANGED aux
    \/ \E u \in FormUsers : resume_set_state(u) /\ UNCHANGED aux
    \/ \E u \in FormUsers : resume_upload(u) /\ UNCHANGED aux
    \/ \E u \in FormUsers : resume_clear(u) /\ UNCHANGED aux
    \/ remove_template /\ UNCHANGED aux

SpecForm == InitForm /\ [][NextForm]_vars

(***************************************************************************)
(* An operator calibrating while an end user fills in the form; a log is   *)
(* kept of the adjust commands that went through                           *)
(***************************************************************************)
\* the adjust just handled is noted with who sent it and the delta as sent
Logged(u, parts) ==
    adj_log' = IF parts[2] = "adj" /\ last'.exc = "none"
               THEN Append(adj_log, [user |-> u, k |-> parts[3], field |-> parts[4],
                                     delta |-> parts[5]])
               ELSE adj_log

Operators == {"op"}
Customers == {"a"}

\* the callback data the operator sends
ShopCallbacks ==
    {<<"dbg", "sel", "BATT_BOX">>,
     <<"dbg", "adj", "BATT_BOX", "w", Minus(60)>>,
     <<"dbg", "adj", "WALLET_BOX", "y", Plus(10)>>}

InitShop == StartUp(Operators \cup Customers) /\ wrap = NoWrap

NextShop ==
    \/ \E u \in Operators : debug(u, DebugText) /\ UNCHANGED aux
    \/ \E u \in Operators : \E m \in DOMAIN shown[u] : \E parts \in ShopCallbacks :
          debug_choose_cb(u, m, parts) /\ UNCHANGED aux
    \/ \E u \in Operators : \E m \in DOMAIN shown[u] : \E parts \in ShopCallbacks :
          debug_adjust_cb(u, m, parts) /\ Logged(u, parts) /\ UNCHANGED <<wrap, n_updates>>
    \/ \E u \in Operators : resume_answer(u) /\ UNCHANGED aux
    \/ \E u \in Customers : start(u, StartText) /\ UNCHANGED aux
    \/ \E u \in Customers : got_battery(u, BatteryText(u)) /\ UNCHANGED aux
    \/ \E u \in Customers : got_time(u, TimeText(u)) /\ UNCHANGED aux
    \/ \E u \in Customers : got_amount(u, AmountText(u)) /\ UNCHANGED aux
    \/ \E u \in Customers : got_wallet(u, WalletText(u), DrawnFor(u)) /\ UNCHANGED aux
    \/ \E u \in Customers : resume_set_state(u) /\ UNCHANGED aux
    \/ \E u \in Customers : resume_upload(u) /\ UNCHANGED aux
    \/ \E u \in Customers : resume_clear(u) /\ UNCHANGED aux

SpecShop == InitShop /\ [][NextShop]_vars

(***************************************************************************)
(* One user who is end user and operator in turn                           *)
(***************************************************************************)
SoloUsers == {"a"}

\* the callback data sent: one of each kind
SoloCallbacks ==
    {<<"dbg", "sel", "BATT_BOX">>, <<"dbg", "back">>, <<"dbg", "apply">>,
     <<"dbg", "adj", "BATT_BOX", "w", Minus(10)>>}

InitSolo == StartUp(SoloUsers) /\ wrap = NoWrap

NextSolo ==
    \/ \E u \in SoloUsers : debug(u, DebugText) /\ UNCHANGED aux
    \/ \E u \in SoloUsers : \E m \in DOMAIN shown[u] : \E parts \in SoloCallbacks :
          debug_choose_cb(u, m, parts) /\ UNCHANGED aux
    \/ \E u \in SoloUsers : \E m \in DOMAIN shown[u] : \E parts \in SoloCallbacks :
          debug_adjust_cb(u, m, parts) /\ UNCHANGED aux
    \/ \E u \in SoloUsers : start(u, StartText) /\ UNCHANGED aux
    \/ \E u \in SoloUsers : got_battery(u, BatteryText(u)) /\ UNCHANGED aux
    \/ \E u \in SoloUsers : got_time(u, TimeText(u)) /\ UNCHANGED aux
    \/ \E u \in SoloUsers : got_amount(u, AmountText(u)) /\ UNCHANGED aux
    \/ \E u \in SoloUsers : got_wallet(u, WalletText(u), DrawnFor(u)) /\ UNCHANGED aux
    \/ \E u \in SoloUsers : resume_answer(u) /\ UNCHANGED aux
    \/ \E u \in SoloUsers : resume_apply(u) /\ UNCHANGED aux
    \/ \E u \in SoloUsers : resume_set_state(u) /\ UNCHANGED aux
    \/ \E u \in SoloUsers : resume_upload(u) /\ UNCHANGED aux
    \/ \E u \in SoloUsers : resume_clear(u) /\ UNCHANGED aux

SpecSolo == InitSolo /\ [][NextSolo]_vars

(***************************************************************************)
(* Two operators calibrating at the same time, pressing the buttons of the *)
(* messages in their chats                                                 *)
(***************************************************************************)
TwoOperators == {"op1", "op2"}

\* the buttons the operators press when a message of theirs carries them
OpsPresses ==
    {<<"dbg", "sel", "BATT_BOX">>, <<"dbg", "sel", "WALLET_BOX">>, <<"dbg", "back">>,
     <<"dbg", "adj", "BATT_BOX", "x", Plus(10)>>, <<"noop">>}

InitOps == StartUp(TwoOperators) /\ template_exists /\ wrap = NoWrap

NextOps ==
    \/ \E u \in TwoOperators : debug(u, DebugText) /\ UNCHANGED aux
    \/ \E u \in TwoOperators : \E m \in DOMAIN shown[u] : \E parts \in OpsPresses :
          Press(u, m, parts) /\ noop_cb(u, parts) /\ UNCHANGED aux
    \/ \E u \in TwoOperators : \E m \in DOMAIN shown[u] : \E parts \in OpsPresses :
          Press(u, m, parts) /\ debug_choose_cb(u, m, parts) /\ UNCHANGED aux
    \/ \E u \in TwoOperators : \E m \in DOMAIN shown[u] : \E parts \in OpsPresses :
          Press(u, m, parts) /\ debug_adjust_cb(u, m, parts) /\ UNCHANGED aux
    \/ \E u \in TwoOperators : resume_answer(u) /\ UNCHANGED aux

SpecOps == InitOps /\ [][NextOps]_vars

(***************************************************************************)
(* Two operators adjusting the same component at the same time, with the   *)
(* log of their adjust commands                                            *)
(***************************************************************************)
\* the callback data the operators send: a select, the button "w +10" and a
\* width step no keyboard carries, large enough for the clamp to act
RaceCallbacks ==
    {<<"dbg", "sel", "BATT_BOX">>,
     <<"dbg", "adj", "BATT_BOX", "w", Plus(10)>>,
     <<"dbg", "adj", "BATT_BOX", "w", Minus(60)>>}

NextRace ==
    \/ \E u \in TwoOperators : debug(u, DebugText) /\ UNCHANGED aux
    \/ \E u \in TwoOperators : \E m \in DOMAIN shown[u] : \E parts \in RaceCallbacks :
          debug_choose_cb(u, m, parts) /\ UNCHANGED aux
    \/ \E u \in TwoOperators : \E m \in DOMAIN shown[u] : \E parts \in RaceCallbacks :
          debug_adjust_cb(u, m, parts) /\ Logged(u, parts) /\ UNCHANGED <<wrap, n_updates>>
    \/ \E u \in TwoOperators : resume_answer(u) /\ UNCHANGED aux

SpecRace == InitOps /\ [][NextRace]_vars

(***************************************************************************)
(* One user going through the calibration and through the form: every      *)
(* handler, the updates handled as they come, whatever is suspended.  The  *)
(* user sends /debug once                                                  *)
(***************************************************************************)
SessionCallbacks ==
    SoloCallbacks \cup {<<"dbg", "overlay">>, <<"dbg", "download">>}

NextSession ==
    \/ \E u \in SoloUsers : shown[u] = <<>> /\ debug(u, DebugText) /\ UNCHANGED aux
    \/ \E u \in SoloUsers : \E m \in DOMAIN shown[u] : \E parts \in SessionCallbacks :
          debug_choose_cb(u, m, parts) /\ UNCHANGED aux
    \/ \E u \in SoloUsers : \E m \in DOMAIN shown[u] : \E parts \in SessionCallbacks :
          debug_adjust_cb(u, m, parts) /\ UNCHANGED aux
    \/ \E u \in SoloUsers : start(u, StartText) /\ UNCHANGED aux
    \/ \E u \in SoloUsers : got_battery(u, BatteryText(u)) /\ UNCHANGED aux
    \/ \E u \in SoloUsers : got_time(u, TimeText(u)) /\ UNCHANGED aux
    \/ \E u \in SoloUsers : got_amount(u, AmountText(u)) /\ UNCHANGED aux
    \/ \E u \in SoloUsers : got_wallet(u, WalletText(u), DrawnFor(u)) /\ UNCHANGED aux
    \/ \E u \in SoloUsers : resume_answer(u) /\ UNCHANGED aux
    \/ \E u \in SoloUsers : resume_apply(u) /\ UNCHANGED aux
    \/ \E u \in SoloUsers : resume_document(u) /\ UNCHANGED aux
    \/ \E u \in SoloUsers : resume_set_state(u) /\ UNCHANGED aux
    \/ \E u \in SoloUsers : resume_upload(u) /\ UNCHANGED aux
    \/ \E u \in SoloUsers : resume_clear(u) /\ UNCHANGED aux

SpecSession == InitSolo /\ [][NextSession]_vars

(***************************************************************************)
(* One operator pressing the buttons of the messages in their chat, also   *)
(* while an apply, a download or an overlay of theirs is still waiting     *)
(***************************************************************************)
\* the buttons the operator presses when a message of theirs carries them
DocPresses ==
    {<<"dbg", "sel", "BATT_BOX">>, <<"dbg", "back">>, <<"dbg", "apply">>,
     <<"dbg", "download">>, <<"dbg", "overlay">>,
     <<"dbg", "adj", "BATT_BOX", "x", Plus(10)>>}

NextDocs ==
    \/ \E u \in Users : debug(u, DebugText) /\ UNCHANGED aux
    \/ \E u \in Users : \E m \in DOMAIN shown[u] : \E parts \in DocPresses :
          Press(u, m, parts) /\ debug_choose_cb(u, m, parts) /\ UNCHANGED aux
    \/ \E u \in Users : \E m \in DOMAIN shown[u] : \E parts \in DocPresses :
          Press(u, m, parts) /\ debug_adjust_cb(u, m, parts) /\ UNCHANGED aux
    \/ \E u \in Users : resume_answer(u) /\ UNCHANGED aux
    \/ \E u \in Users : resume_apply(u) /\ UNCHANGED aux
    \/ \E u \in Users : resume_document(u) /\ UNCHANGED aux
    \/ remove_overlay /\ UNCHANGED aux

SpecDocs == Init /\ [][NextDocs]_vars

(***************************************************************************)
(* Vocabulary of the properties                                            *)
(***************************************************************************)
\* the update just handled was a "dbg:<action>" callback in handler h
Handled(r, h, action) == r.handler = h /\ Len(r.data) >= 2 /\ r.data[2] = action

\* ... in either calibration state
HandledDbg(r, action) ==
    Handled(r, "debug_choose_cb", action) \/ Handled(r, "debug_adjust_cb", action)

\* the signed integer a delta button stands for
SignedDelta(d) ==
    CASE d = Minus(10) -> 0 - 10
      [] d = Plus(10) -> 10
      [] d = Minus(60) -> 0 - 60
      [] d = <<" ", "U+0661", "_", "0">> -> 10

Selected(u) == fsm_data[u]["debug_selected"]

\* the component k.field after the adjusts of log, carried out one at a time
\* in the order of log on the built-in rectangles
RECURSIVE Sequential(_, _, _)
Sequential(k, field, log) ==
    IF log = <<>> THEN DefaultCoords[k][field]
    ELSE LET e == log[Len(log)]
             before == Sequential(k, field, SubSeq(log, 1, Len(log) - 1))
             sum == before + SignedDelta(e.delta)
             floor == IF field \in {"w", "h"} THEN 1 ELSE 0
         IN  IF e.k = k /\ e.field = field
             THEN (IF sum >= floor THEN sum ELSE floor)
             ELSE before

\* the registry after the adjusts of log
RegistryAfter(log) == [k \in Names |-> [field \in Axes |-> Sequential(k, field, log)]]

\* in this step one more handler h of u is suspended at its await
Started(u, h) == InFlight(pending'[u], h) = InFlight(pending[u], h) + 1

\* in this step a suspended handler h of u has run to its end
Ended(u, h) == InFlight(pending'[u], h) = InFlight(pending[u], h) - 1

(***************************************************************************)
(* C1: in every reachable state every field's rectangle has w >= 1,        *)
(* h >= 1, x >= 0 and y >= 0.                                              *)
(***************************************************************************)
C1_RectanglesValid ==
    \A k \in Names :
        /\ COORDS[k]["w"] >= 1
        /\ COORDS[k]["h"] >= 1
        /\ COORDS[k]["x"] >= 0
        /\ COORDS[k]["y"] >= 0

\* an adjust of y by -60 from 42 has just been clamped to 0
C1_Witness ==
    /\ Handled(last, "debug_adjust_cb", "adj")
    /\ last.exc = "none"
    /\ last.data = <<"dbg", "adj", "BATT_BOX", "y", Minus(60)>>
    /\ COORDS["BATT_BOX"]["y"] = 0

(***************************************************************************)
(* C2: an adjust in Adjusting on a valid field and axis sets the component *)
(* to exactly max(1, old + delta) for w and h and to exactly               *)
(* max(0, old + delta) for x and y, with no upper bound.                   *)
(***************************************************************************)
C2_AdjustSetsClamped ==
    [][(Handled(last', "debug_adjust_cb", "adj") /\ last'.exc = "none") =>
        LET k == last'.data[3]
            a == last'.data[4]
            sum == COORDS[k][a] + SignedDelta(last'.data[5])
        IN  /\ fsm_state[last'.user] = "Debug:adjusting"
            /\ a \in {"w", "h"} => COORDS'[k][a] = (IF sum >= 1 THEN sum ELSE 1)
            /\ a \in {"x", "y"} => COORDS'[k][a] = (IF sum >= 0 THEN sum ELSE 0)]_vars

\* w adjusted by -10 from a width in 1..10 (70 - 60 = 10) and now 1
C2_Witness ==
    /\ Handled(last, "debug_adjust_cb", "adj")
    /\ last.exc = "none"
    /\ last.data = <<"dbg", "adj", "BATT_BOX", "w", Minus(10)>>
    /\ COORDS["BATT_BOX"]["w"] = 1

(***************************************************************************)
(* C3: a select(name) in Choosing moves the session to Adjusting with name *)
(* selected when name is one of the five field-names; otherwise the select *)
(* fails and the session remains in Choosing, state tag and selected field *)
(* as before.                                                              *)
(***************************************************************************)
C3_SelectOrRemain ==
    [][(Handled(last', "debug_choose_cb", "sel") /\ Len(last'.data) >= 3) =>
        LET u == last'.user
            k == last'.data[3]
        IN  IF k \in Names
            THEN /\ fsm_state'[u] = "Debug:adjusting"
                 /\ fsm_data'[u]["debug_selected"] = k
            ELSE /\ last'.exc # "none"
                 /\ fsm_state'[u] = fsm_state[u]
                 /\ fsm_data'[u] = fsm_data[u]]_vars

(***************************************************************************)
(* C4: an apply received in Choosing or in Adjusting invokes save with the *)
(* current full registry and leaves the session state tag, the selected    *)
(* field and every rectangle of the registry unchanged.                    *)
(***************************************************************************)
\* the step is the edit of the message by an apply that had been waiting
Relisted(r) == r.handler = "resumed" /\ r.view = "coords_text"

C4_ApplyFrame ==
    [][/\ HandledDbg(last', "apply") =>
              /\ fsm_state[last'.user] \in {"Debug:choosing", "Debug:adjusting"}
              /\ config_json' = save_coords_to_json(config_json, COORDS)
              /\ fsm_state' = fsm_state
              /\ fsm_data' = fsm_data
              /\ COORDS' = COORDS
       /\ Relisted(last') =>
              /\ config_json' = config_json
              /\ fsm_state' = fsm_state
              /\ fsm_data' = fsm_data
              /\ COORDS' = COORDS]_vars

\* an apply handled in Adjusting, after an adjust, with the field still selected
C4_Witness ==
    /\ Handled(last, "debug_adjust_cb", "apply")
    /\ fsm_state[last.user] = "Debug:adjusting"
    /\ Selected(last.user) = "BATT_BOX"
    /\ COORDS # DefaultCoords
    /\ config_json.has_coords

(***************************************************************************)
(* C5: immediately after an apply the persisted configuration holds, for   *)
(* every one of the five field-names, a rectangle whose four integers,     *)
(* read back, equal the in-memory rectangle of that field.                 *)
(***************************************************************************)
C5_ApplyPersists ==
    HandledDbg(last, "apply") =>
        /\ config_json.exists
        /\ config_json.has_coords
        /\ DOMAIN config_json.coords = Names
        /\ \A k \in Names :
              /\ DOMAIN config_json.coords[k] = Axes
              /\ \A a \in Axes : LoadCoords(config_json)[k][a] = COORDS[k][a]

\* an apply right after the width was clamped to 1: the file holds the numeral 1
C5_Witness ==
    /\ HandledDbg(last, "apply")
    /\ COORDS["BATT_BOX"]["w"] = 1
    /\ config_json.has_coords
    /\ config_json.coords["BATT_BOX"]["w"] = <<"1">>

(***************************************************************************)
(* C6 as claimed: a download received in either Choosing or Adjusting      *)
(* invokes save with the current registry and then delivers the saved      *)
(* file, leaving the session state unchanged.                              *)
(***************************************************************************)
\* the step is the upload of config.json by a download that had been waiting
Uploaded(r) == r.handler = "resumed" /\ r.doc = "config.json"

C6_DownloadEitherState ==
    [][/\ HandledDbg(last', "download") =>
              /\ config_json' = save_coords_to_json(config_json, COORDS)
              /\ Started(last'.user, "download")
              /\ fsm_state' = fsm_state
              /\ fsm_data' = fsm_data
       /\ Uploaded(last') =>
              /\ sent' = [user |-> last'.user, doc |-> "config.json", image |-> config_json]
              /\ fsm_state' = fsm_state
              /\ fsm_data' = fsm_data]_vars

(***************************************************************************)
(* C6 amended: a download received in Choosing invokes save with the       *)
(* current registry and then, once it has been acknowledged, delivers      *)
(* config.json as it is on disk by then: the file this download saved, or  *)
(* the file an apply or download handled in between saved from the         *)
(* registry of that moment; the session state is unchanged.  Received in   *)
(* Adjusting it is only acknowledged: nothing is saved or delivered and    *)
(* the session state is unchanged.                                         *)
(***************************************************************************)
C6_DownloadInChoosing ==
    [][/\ HandledDbg(last', "download") =>
              /\ fsm_state' = fsm_state
              /\ fsm_data' = fsm_data
              /\ COORDS' = COORDS
              /\ sent' = sent
              /\ IF fsm_state[last'.user] = "Debug:choosing"
                 THEN /\ config_json' = save_coords_to_json(config_json, COORDS)
                      /\ Started(last'.user, "download")
                 ELSE /\ fsm_state[last'.user] = "Debug:adjusting"
                      /\ config_json' = config_json
                      /\ pending' = pending
                      /\ last'.doc = "none"
                      /\ last'.answer = "empty"
       /\ \A u \in DOMAIN pending :
              Ended(u, "download") =>
                  /\ Uploaded(last')
                  /\ last'.user = u
                  /\ sent' = [user |-> u, doc |-> "config.json", image |-> config_json]
                  /\ config_json.has_coords
                  /\ config_json' = config_json
                  /\ fsm_state' = fsm_state
                  /\ fsm_data' = fsm_data
       /\ (sent' # sent /\ sent'.doc = "config.json") => Ended(sent'.user, "download")
       /\ config_json' # config_json =>
              /\ HandledDbg(last', "apply") \/ Handled(last', "debug_choose_cb", "download")
              /\ config_json' = save_coords_to_json(config_json, COORDS)]_vars

\* a download was handled in Choosing with the defaults in the registry; before
\* its upload the operator selected a field, adjusted it and applied: the file
\* delivered holds the adjusted registry
C6_Witness ==
    /\ Uploaded(last)
    /\ sent.user = last.user
    /\ sent.image = config_json
    /\ fsm_state[last.user] = "Debug:adjusting"
    /\ COORDS # DefaultCoords
    /\ LoadCoords(sent.image) = COORDS

(***************************************************************************)
(* C7 as claimed: an overlay received in either Choosing or Adjusting      *)
(* invokes the Overlay Renderer and leaves the session state unchanged;    *)
(* when the template is absent the command fails, the failure is reported, *)
(* no overlay artifact is written, and session state, selected field and   *)
(* registry are unchanged.                                                 *)
(***************************************************************************)
C7_OverlayEitherState ==
    [][HandledDbg(last', "overlay") =>
        /\ fsm_state' = fsm_state
        /\ fsm_data' = fsm_data
        /\ COORDS' = COORDS
        /\ IF template_exists
           THEN /\ debug_overlay_png' = render_debug_overlay
                /\ last'.answer = "done"
           ELSE /\ debug_overlay_png' = debug_overlay_png
                /\ last'.alert
                /\ last'.answer = "template_missing"
                /\ last'.doc = "none"]_vars

(***************************************************************************)
(* C7 amended: an overlay received in Choosing invokes the Overlay         *)
(* Renderer and leaves the session state unchanged; when the template is   *)
(* absent it fails, the failure is reported to the operator, no overlay    *)
(* artifact is written, and session state, selected field and registry are *)
(* unchanged.  Received in Adjusting it is only acknowledged: nothing is   *)
(* rendered or reported, whether the template exists or not.               *)
(***************************************************************************)
C7_OverlayInChoosing ==
    [][HandledDbg(last', "overlay") =>
        /\ fsm_state' = fsm_state
        /\ fsm_data' = fsm_data
        /\ COORDS' = COORDS
        /\ IF fsm_state[last'.user] = "Debug:choosing"
           THEN IF template_exists
                THEN /\ debug_overlay_png' = render_debug_overlay
                     /\ last'.answer = "done"
                ELSE /\ debug_overlay_png' = debug_overlay_png
                     /\ last'.alert
                     /\ last'.answer = "template_missing"
                     /\ last'.doc = "none"
           ELSE /\ fsm_state[last'.user] = "Debug:adjusting"
                /\ debug_overlay_png' = debug_overlay_png
                /\ ~last'.alert
                /\ last'.answer = "empty"
                /\ last'.doc = "none"]_vars

\* an overlay asked for in Choosing with the template absent, after an adjust:
\* the alert was shown and there is no overlay file
C7_Witness ==
    /\ Handled(last, "debug_choose_cb", "overlay")
    /\ ~template_exists
    /\ last.alert
    /\ ~debug_overlay_png.exists
    /\ COORDS # DefaultCoords

(***************************************************************************)
(* C8: a back received in Adjusting moves the session to Choosing with the *)
(* selected field cleared, and leaves every rectangle of the registry and  *)
(* the persisted file as they were.                                        *)
(***************************************************************************)
C8_BackFrame ==
    [][/\ Handled(last', "debug_adjust_cb", "back") =>
              /\ fsm_state[last'.user] = "Debug:adjusting"
              /\ fsm_state'[last'.user] = "Debug:choosing"
              /\ fsm_data'[last'.user]["debug_selected"] = "None"
              /\ Started(last'.user, "back")
              /\ COORDS' = COORDS
              /\ config_json' = config_json
       /\ \A u \in DOMAIN pending :
              Ended(u, "back") =>
                  /\ fsm_state' = fsm_state
                  /\ fsm_data' = fsm_data
                  /\ COORDS' = COORDS
                  /\ config_json' = config_json]_vars

\* back after an adjust that was never applied: the registry keeps the
\* adjustment and the file holds no rectangles
C8_Witness ==
    /\ Handled(last, "debug_adjust_cb", "back")
    /\ fsm_state[last.user] = "Debug:choosing"
    /\ Selected(last.user) = "None"
    /\ COORDS # DefaultCoords
    /\ ~config_json.has_coords

(***************************************************************************)
(* C9: in every reachable state the registry's key set is exactly the five *)
(* field-names, each mapped to one rectangle with exactly the components   *)
(* x, y, w, h.                                                             *)
(***************************************************************************)
C9_KeysFixed ==
    /\ DOMAIN COORDS = Names
    /\ \A k \in DOMAIN COORDS : DOMAIN COORDS[k] = Axes

\* an adjust naming an unknown field has just been handled
C9_Witness ==
    /\ Handled(last, "debug_adjust_cb", "adj")
    /\ last.data = <<"dbg", "adj", "NOPE", "x", Minus(10)>>
    /\ COORDS # DefaultCoords

(***************************************************************************)
(* C10: an adjust that fails because its field-name is outside the closed  *)
(* set, or its axis is not one of x, y, w, h, raises before any mutation:  *)
(* the registry, the session state and the persisted file are the same     *)
(* before and after it.                                                    *)
(***************************************************************************)
C10_FailedAdjustNoMutation ==
    [][(Handled(last', "debug_adjust_cb", "adj") /\ Len(last'.data) >= 5
            /\ (last'.data[3] \notin Names \/ last'.data[4] \notin Axes)) =>
        /\ last'.exc = "KeyError"
        /\ COORDS' = COORDS
        /\ BOXES' = BOXES
        /\ fsm_state' = fsm_state
        /\ fsm_data' = fsm_data
        /\ config_json' = config_json]_vars

\* an adjust on the unknown axis z of a known field has raised, after an
\* earlier adjust and an apply
C10_Witness ==
    /\ Handled(last, "debug_adjust_cb", "adj")
    /\ last.data = <<"dbg", "adj", "BATT_BOX", "z", Plus(10)>>
    /\ last.exc = "KeyError"
    /\ config_json.has_coords
    /\ COORDS # DefaultCoords

(***************************************************************************)
(* C16: every calibration command that is not recognized in the session's  *)
(* current state is acknowledged as a no-op: the session state tag, the    *)
(* selected field, the registry and the persisted file are unchanged and   *)
(* no error is raised.                                                     *)
(***************************************************************************)
Recognized(h) ==
    IF h = "debug_choose_cb" THEN {"sel", "apply", "download", "overlay"}
    ELSE {"apply", "back", "adj"}

C16_UnrecognizedNoop ==
    [][(/\ last'.handler \in {"debug_choose_cb", "debug_adjust_cb"}
        /\ Len(last'.data) >= 2
        /\ last'.data[2] \notin Recognized(last'.handler)) =>
        /\ last'.answer = "empty"
        /\ ~last'.alert
        /\ last'.exc = "none"
        /\ last'.doc = "none"
        /\ fsm_state' = fsm_state
        /\ fsm_data' = fsm_data
        /\ COORDS' = COORDS
        /\ BOXES' = BOXES
        /\ config_json' = config_json
        /\ debug_overlay_png' = debug_overlay_png]_vars

\* the unknown action "foo" acknowledged in Adjusting, after an adjust that
\* was never saved
C16_Witness ==
    /\ Handled(last, "debug_adjust_cb", "foo")
    /\ last.answer = "empty"
    /\ fsm_state[last.user] = "Debug:adjusting"
    /\ COORDS # DefaultCoords
    /\ ~config_json.has_coords

(***************************************************************************)
(* C17: with chunk width 34 the wallet is written as its text without      *)
(* whitespace, cut into consecutive 34-character chunks, of which at most  *)
(* the first 2 are kept: up to 34 characters give 1 line equal to the      *)
(* text without whitespace, 70 characters give 2 lines of 34 with the      *)
(* last 2 characters dropped.                                              *)
(***************************************************************************)
C17_WalletWrapped ==
    wrap.done =>
        LET b == wrap.base
            n == Len(b)
        IN  /\ n = 0 => wrap.out = <<>>
            /\ (1 <= n /\ n <= 34) => wrap.out = b
            /\ n > 34 =>
                   /\ SubSeq(wrap.out, 1, 34) = SubSeq(b, 1, 34)
                   /\ wrap.out[35] = "\n"
                   /\ SubSeq(wrap.out, 36, Len(wrap.out)) = SubSeq(b, 35, Min(n, 68))
            /\ n = 70 => Len(wrap.out) = 34 + 1 + 34 /\ wrap.out[Len(wrap.out)] = b[68]

\* a 70-character wallet typed with whitespace around and inside it has been wrapped
C17_Witness ==
    /\ wrap.done
    /\ Len(wrap.base) = 70
    /\ Len(wrap.text) > 72
    /\ wrap.text[1] \in Whitespace
    /\ Len(wrap.out) = 69

(***************************************************************************)
(* C12: when end-user flows complete concurrently, every flow is delivered *)
(* the card composed from its own field values: no other flow's write to   *)
(* output.png comes between a flow's write and its delivery.               *)
(***************************************************************************)
\* img shows the values u typed
OwnCard(u, img) ==
    /\ img.battery.text = NatToStr(clamp_int(BatteryText(u), 0, 100))
    /\ img.time.text = validate_time(TimeText(u)).value
    /\ img.amount.text = normalize_amount(AmountText(u)).value \o AmountTail
    /\ img.wallet.text = wrap_mono(WalletText(u), WalletChars)

C12_DeliveredOwnCard == sent.user \in EndUsers => OwnCard(sent.user, sent.image)

(***************************************************************************)
(* C18: a text that fails a form step's validation (time, amount, wallet   *)
(* shorter than 10) gets the step's retry prompt and leaves the step, the  *)
(* committed values and everything else as they were; a handler goes on    *)
(* to the next step only with a text that passed, and a step is reached    *)
(* only through such a handler.                                            *)
(***************************************************************************)
\* whether the step's handler accepts the text
ValidInput(handler, text) ==
    CASE handler = "got_time" -> validate_time(text).exc = "none"
      [] handler = "got_amount" -> normalize_amount(text).exc = "none"
      [] handler = "got_wallet" -> Len(Strip(text)) >= 10

RetryPrompt(handler) ==
    CASE handler = "got_time" -> "retry time"
      [] handler = "got_amount" -> "retry amount"
      [] handler = "got_wallet" -> "retry wallet"

Validating == {"got_time", "got_amount", "got_wallet"}

C18_InvalidRetriesSameStep ==
    [][\A u \in DOMAIN fsm_state :
          /\ (/\ last'.user = u
              /\ last'.handler \in Validating
              /\ ~ValidInput(last'.handler, last'.data)) =>
                 /\ last'.view = RetryPrompt(last'.handler)
                 /\ last'.exc = "none"
                 /\ fsm_state' = fsm_state
                 /\ fsm_data' = fsm_data
                 /\ pending' = pending
                 /\ output_png' = output_png
          /\ \A h \in Validating :
                Started(u, h) =>
                    /\ last'.user = u
                    /\ last'.handler = h
                    /\ ValidInput(h, last'.data)
          /\ \A h \in {"got_time", "got_amount"} :
                (fsm_state'[u] = NextStep(h) /\ fsm_state[u] # NextStep(h)) =>
                    Ended(u, h)]_vars

\* an amount that does not parse was answered with the retry prompt, battery and time committed
C18_Witness ==
    /\ last.handler = "got_amount"
    /\ last.data = BadAmountText
    /\ last.view = "retry amount"
    /\ fsm_state[last.user] = "Form:amount"
    /\ DOMAIN fsm_data[last.user] = {"battery", "time"}

(***************************************************************************)
(* C15: a render that fails leaves output.png exactly as it was: when the  *)
(* template cannot be opened the exception leaves got_wallet and nothing   *)
(* is written or sent; output.png changes only by a render that drew all   *)
(* five fields.                                                            *)
(***************************************************************************)
C15_FailedRenderKeepsOutput ==
    [][/\ (last'.handler = "got_wallet" /\ last'.exc # "none") =>
              /\ output_png' = output_png
              /\ sent' = sent
              /\ pending' = pending
       /\ (/\ last'.handler = "got_wallet"
           /\ ValidInput("got_wallet", last'.data)
           /\ {"battery", "time", "amount"} \subseteq DOMAIN fsm_data[last'.user]
           /\ ~template_exists) => last'.exc = "FileNotFoundError"
       /\ output_png' # output_png =>
              /\ last'.handler = "got_wallet"
              /\ last'.exc = "none"
              /\ template_exists
              /\ output_png'.exists
              /\ DOMAIN output_png'.image = {"time", "battery", "op_id", "amount", "wallet"}]_vars

\* the template is gone, a card from an earlier flow is on disk, and a render has failed
C15_Witness ==
    /\ last.handler = "got_wallet"
    /\ last.exc = "FileNotFoundError"
    /\ ~template_exists
    /\ output_png.exists
    /\ output_png.image.wallet.text = wrap_mono(WalletText(last.user), WalletChars)
    /\ fsm_state[last.user] = "Form:wallet"

(***************************************************************************)
(* C13: one render of the card takes all five rectangles from one state of *)
(* the registry: the card is placed by the registry the adjusts handled    *)
(* before the render have made, an adjust in flight at the render          *)
(* included, and the card on disk or delivered is at every moment placed   *)
(* by the registry as it was after some number of the adjusts, never by    *)
(* rectangles of two of these states; the render itself adjusts nothing.   *)
(***************************************************************************)
\* where the five fields go when every rectangle is read from coords
PlacedBy(img, coords) ==
    /\ img.time.at = <<coords["TIME_BOX"]["x"], coords["TIME_BOX"]["y"]>>
    /\ img.battery.at = <<coords["BATT_BOX"]["x"] + (coords["BATT_BOX"]["w"] \div 2),
                          coords["BATT_BOX"]["y"] + (coords["BATT_BOX"]["h"] \div 2)>>
    /\ img.op_id.at = <<coords["OPID_BOX"]["x"] + (coords["OPID_BOX"]["w"] \div 2),
                        coords["OPID_BOX"]["y"] + (coords["OPID_BOX"]["h"] \div 2)>>
    /\ img.amount.at = <<coords["AMOUNT_LINE"]["x"], coords["AMOUNT_LINE"]["y"]>>
    /\ img.wallet.at = <<coords["WALLET_BOX"]["x"], coords["WALLET_BOX"]["y"]>>

\* the step is a got_wallet that rendered
Rendered(r) == r.handler = "got_wallet" /\ r.exc = "none" /\ r.view = "none"

\* img is placed by the registry as it was after the first n logged adjusts, for some n
OneSnapshot(img) ==
    \E n \in 0..Len(adj_log) : PlacedBy(img, RegistryAfter(SubSeq(adj_log, 1, n)))

C13_RenderOneSnapshot ==
    [][/\ Rendered(last') =>
              /\ PlacedBy(output_png'.image, RegistryAfter(adj_log))
              /\ COORDS' = COORDS
              /\ adj_log' = adj_log
       /\ output_png' # output_png => Rendered(last')
       /\ output_png'.exists => OneSnapshot(output_png'.image)
       /\ sent'.doc = "output.png" => OneSnapshot(sent'.image)]_vars

\* a card was rendered while an adjust of the operator was in flight, waiting
\* for its edit_text; the operator had moved two fields by then
C13_Witness ==
    /\ Rendered(last)
    /\ \E op \in Operators :
           fsm_state[op] = "Debug:adjusting" /\ InFlight(pending[op], "adj") >= 1
    /\ Len(adj_log) = 2
    /\ COORDS["BATT_BOX"] # DefaultCoords["BATT_BOX"]
    /\ COORDS["WALLET_BOX"] # DefaultCoords["WALLET_BOX"]
    /\ PlacedBy(output_png.image, COORDS)
    /\ ~PlacedBy(output_png.image, DefaultCoords)

(***************************************************************************)
(* C11: a rectangle of the registry changes only in a step in which an     *)
(* adjust command is handled in Adjusting; /start, the four form steps and *)
(* the render, /debug, select, apply, download, overlay and back leave     *)
(* every rectangle as it was.                                              *)
(***************************************************************************)
C11_OnlyAdjustMutates ==
    [][(COORDS' # COORDS \/ BOXES' # BOXES) =>
           /\ Handled(last', "debug_adjust_cb", "adj")
           /\ last'.exc = "none"
           /\ fsm_state[last'.user] = "Debug:adjusting"]_vars

\* after an adjust, an apply and an overlay the user has gone through the
\* form and the card was rendered: the registry still holds the adjusted values
C11_Witness ==
    /\ Rendered(last)
    /\ n_adjusted >= 1
    /\ COORDS # DefaultCoords
    /\ config_json.has_coords
    /\ debug_overlay_png.exists
    /\ LoadCoords(config_json) = COORDS

(***************************************************************************)
(* C20: whatever order /start, /debug, calibration buttons and texts of    *)
(* one user arrive in, a session at the wallet step holds a battery in     *)
(* 0..100, a validated time and a validated amount, and got_wallet never   *)
(* reads a missing field.                                                  *)
(***************************************************************************)
\* the stored data holds the three committed fields, each as its validator returns it
Committed(data) ==
    /\ {"battery", "time", "amount"} \subseteq DOMAIN data
    /\ data["battery"] \in 0..100
    /\ validate_time(data["time"]) = [exc |-> "none", value |-> data["time"]]
    /\ IsDecimal(data["amount"])

C20_WalletStepHasFields ==
    /\ \A u \in DOMAIN fsm_state : fsm_state[u] = "Form:wallet" => Committed(fsm_data[u])
    /\ last.exc # "KeyError"

(***************************************************************************)
(* C14: with two operators adjusting at once no adjust is lost: at every   *)
(* moment, also with adjust commands of both still in flight, every        *)
(* component of the registry is what the adjusts that went through give in *)
(* some sequential order, each adding its delta to what the one before     *)
(* left and clamping (w and h at 1, x and y at 0), from the built-in       *)
(* value.                                                                  *)
(***************************************************************************)
\* the orders the adjusts of log can be carried out in
Orders(log) ==
    {[i \in 1..Len(log) |-> log[p[i]]] : p \in Permutations(1..Len(log))}

Changed(before, after) ==
    {<<k, field>> \in Names \X Axes : before[k][field] # after[k][field]}

C19_AdjustChangesSelectedOnly ==
    [][(Handled(last', "debug_adjust_cb", "adj") /\ last'.exc = "none") =>
           /\ Cardinality(Changed(COORDS, COORDS')) <= 1
           /\ \A c \in Changed(COORDS, COORDS') : c[1] = Selected(last'.user)]_vars

====
